---- MODULE Spec2Model ----
(***************************************************************************)
(* Chunked parallel transfer engine of sevenbridges-go: the multipart      *)
(* upload driver (api.go: Upload, processPart, getParts) and the ranged    *)
(* download driver (Download, downloadChunk, generateChunks, fileSize).    *)
(* Goroutines are processes, channels are bounded FIFO queues with a       *)
(* closed flag, sync.WaitGroup is an integer counter, a Go panic stops the *)
(* whole process.  Workers are anonymous goroutines, kept as a bag of      *)
(* their local states.  A state in which every goroutine waits is left as  *)
(* a state without successor.                                              *)
(* SpecPlan runs the two range planners alone over many sizes; SpecFile    *)
(* is the file service (List, ByID, Delete) with service.Do and            *)
(* NewResponse over the headers a server may answer with; SpecService is   *)
(* every request function of the five services.                            *)
(***************************************************************************)
EXTENDS Bags, FiniteSets, Integers, Naturals, Sequences, TLC

\* ---------------------------------------------------------------- bounds
\* largest number of upload parts / download chunks of a file cut at
\* PartSize (a server that names half that part size gets one part more)
MaxParts == 2
MaxChunks == 2
\* the failures injected into one run: a run of n ranges takes a further
\* failure while n * (failures so far + 1) is at most MaxAttempts, so that a
\* single range fails up to MaxAttempts times and many ranges fail less
MaxAttempts == 3
\* the range planners alone: largest file size and largest part size (bytes)
\* of the upload plans, and how far around a multiple of PartSize the sizes of
\* the download plans go
MaxPlanSize == 9
MaxPlanPartSize == 4
\* longest X-Total-Matching-Query header value (characters)
MaxHeaderLen == 2

\* ------------------------------------------------------- program constants
KB == 1024
MB == 1024 * KB
PartSize == 10 * MB
\* worker limits and channel capacities written as literals in the drivers
UploadWorkers == 8
DownloadWorkers == 16
DownloadQueueCap == 16

\* the extremes of int64 that an out-of-range float64 conversion may give;
\* the integers of the checker are narrower, so these stand for -2^63 and
\* 2^63 - 1: the model looks at their sign, compares them with small counts
\* and takes their low 32 bits (Counter32)
MinInt64 == 0 - 1073741824
MaxInt64 == 1073741823

Nil == "nil"
Err == "error"
\* the empty ETag of a part that no transfer has tagged
NoTag == << >>

VARIABLES
  call,          \* which API call the caller made: "Upload" or "Download"
  pc,            \* position of the calling goroutine inside that call
  ret,           \* value returned to the caller ("none" while running)
  panic,         \* "" or the message of the panic that killed the process
  actualSize,    \* size of the local file (upload) / of the remote file (download)
  size,          \* size the driver plans with (stat.Size() / fileSize(url))
  partSize,      \* info.PartSize (upload) / PartSize (download)
  totalParts,    \* totalParts / totalChunks
  parts,         \* upload work channel: sequence of part ids (pointers)
  chunks,        \* download work channel: sequence of chunk values
  workCap,       \* capacity of the work channel
  workClosed,    \* close(parts) / close(chunks) executed
  report,        \* result channel
  reportCap,     \* capacity of the result channel
  reportClosed,  \* close(report) executed
  wg,            \* sync.WaitGroup counter
  gen,           \* range planner goroutine: [start, end, count]
  heap,          \* upload parts by id: [ID, StartByte, EndByte, ETag, Error]
  workers,       \* bag of worker goroutine states
  coord,         \* retry coordinator goroutine state
  fails,         \* per-range failures injected so far
  handles,       \* file handles currently open
  destCreated,   \* download destination file exists
  res,           \* how each pre-flight / session request ended ("none" before it)
  issued,        \* kinds of network call issued so far
  finalizeCalls, \* number of session-complete requests issued
  ackOK,         \* upload parts with an acknowledge call that succeeded
  succeeded,     \* ranges with an attempt in which every step succeeded
  count,         \* per upload part: requests issued [neg, xfer, ack]
  lastFetch,     \* download: how the most recent attempt of each chunk ended
  requeued,      \* error values the coordinator cleared and re-enqueued
  zeroHits,      \* number of times the counter went from non-zero to zero
  closes,        \* number of close() calls executed on the two channels
  header,        \* headers of the HTTP response a file-service call receives
  request,       \* request the last service call built: [op, method, path, query]
  sr,            \* what service.Do returned for it: [response, err]
  lastAck        \* per upload part: the tag its latest successful acknowledge
                 \* posted was "fresh" (of the same attempt) or "stale"

vars == << call, pc, ret, panic, actualSize, size, partSize, totalParts,
           parts, chunks, workCap, workClosed, report, reportCap,
           reportClosed, wg, gen, heap, workers, coord, fails, handles,
           destCreated, res, issued, finalizeCalls, ackOK, succeeded, count,
           lastFetch, requeued, zeroHits, closes, header, request, sr,
           lastAck >>

\* ---------------------------------------------------------------- helpers
intMin(a, b) == IF a < b THEN a ELSE b

\* variant of getNumberOfChunks that rounds down
getNumberOfChunksFloor(totalSize, ps) == totalSize \div ps

\* ceil(totalSize / partSize); float64 is exact for the sizes used here
getNumberOfChunks(totalSize, ps) == (totalSize + ps - 1) \div ps

\* part_002 73-75 as Upload calls it (api.go 240): the values
\* int(int64(math.Ceil(float64(totalSize) / float64(ps)))) may take.  With
\* ps = 0 the quotient is +Inf, or NaN for an empty file, and the conversion
\* of such a value to int64 is implementation-dependent: amd64 gives the most
\* negative int64 for both, arm64 gives the largest int64 for +Inf and 0 for
\* NaN
Conversions(totalSize, ps) ==
  IF ps # 0 THEN {getNumberOfChunks(totalSize, ps)}
  ELSE IF totalSize = 0 THEN {MinInt64, 0}
  ELSE {MinInt64, MaxInt64}

\* part sizes the server names in its answer to the session-create request:
\* none (part_size absent or 0), half of and exactly the size the client
\* asked for
ServerPartSizes == {0, PartSize \div 2, PartSize}

\* file sizes that give 0..n ranges, the last range half a part long
\* (n = 3 gives the 25 MB file cut into 10, 10 and 5 MB)
Sizes(n) == {0} \cup { k * PartSize - PartSize \div 2 : k \in 1..n }

BagOfN(e, n) == IF n = 0 THEN EmptyBag ELSE (e :> n)
BagReplace(B, old, new) == (B (-) SetToBag({old})) (+) SetToBag({new})

Alive == panic = ""

\* a failure may still be injected
MayFail == totalParts * (fails + 1) <= MaxAttempts

\* ------------------------------------------------------------------- Init
NoCoord == [pc |-> "none", p |-> 0]
NoGen == [start |-> 0, end |-> 0, count |-> 0, live |-> FALSE]

\* no file-service call in progress; a header that is not set reads as ""
NoHeader == [limit |-> << >>, remaining |-> << >>, reset |-> << >>,
             total |-> << >>]
\* a query parameter that is not set reads as "" or 0
NoQuery == [project |-> "", limit |-> 0, offset |-> 0]
NoRequest == [op |-> "none", method |-> "", path |-> << >>, query |-> NoQuery]

\* the zero Timestamp, the nil *Rate and the nil *Response
ZeroTime == [set |-> FALSE, unix |-> 0]
NilRate == [nil |-> TRUE, Limit |-> 0, Remaining |-> 0, Reset |-> ZeroTime]
NilResponse == [nil |-> TRUE, Page |-> [TotalMatchingQuery |-> 0],
                Rate |-> NilRate]
NoResult == [response |-> NilResponse, err |-> Nil]

InitCommon ==
  /\ ret = "none" /\ panic = ""
  /\ size = 0 /\ partSize = 0 /\ totalParts = 0
  /\ parts = << >> /\ chunks = << >>
  /\ workCap = 0 /\ workClosed = FALSE
  /\ report = << >> /\ reportCap = 0 /\ reportClosed = FALSE
  /\ wg = 0
  /\ gen = NoGen
  /\ heap = << >>
  /\ workers = EmptyBag
  /\ coord = NoCoord
  /\ fails = 0 /\ handles = 0 /\ destCreated = FALSE
  /\ res = [stat |-> "none", init |-> "none", finalize |-> "none",
            info |-> "none", probe |-> "none"]
  /\ issued = {} /\ finalizeCalls = 0 /\ ackOK = {} /\ count = << >>
  /\ succeeded = {}
  /\ lastFetch = << >> /\ requeued = {}
  /\ zeroHits = 0 /\ closes = 0
  /\ header = NoHeader /\ request = NoRequest /\ sr = NoResult
  /\ lastAck = << >>

\* the caller invokes Upload on a local file of some size
InitUpload ==
  /\ call = "Upload" /\ pc = "stat"
  /\ actualSize \in Sizes(MaxParts)
  /\ InitCommon

\* the caller invokes Download of a remote file of some size
InitDownload ==
  /\ call = "Download" /\ pc = "info"
  /\ actualSize \in Sizes(MaxChunks)
  /\ InitCommon

Init == InitUpload \/ InitDownload

\* ------------------------------------------------------- channel operations
\* ch <- v on a buffered channel panics when the channel is closed and
\* blocks while it is full
SendOnClosed == "send on closed channel"
\* make(chan T, n) panics when n is negative
MakeChanSize == "makechan: size out of range"
\* wg.Add and wg.Done panic when they leave the counter below zero
NegativeCounter == "sync: negative WaitGroup counter"

\* api.go 243, wg.Add(totalParts): sync.WaitGroup keeps its counter in 32
\* bits, so what Add adds is the int32 of the low 32 bits of delta.  The low
\* 32 bits of 2^63 - 1 are all ones (-1), those of -2^63 are all zero; the
\* range counts of the files of the model are far below 2^31
Counter32(delta) ==
  IF delta = MaxInt64 THEN 0 - 1
  ELSE IF delta = MinInt64 THEN 0
  ELSE delta

\* ---------------------------------------------------------------- Upload

\* api.go 229-232: os.Stat(uploadInfo.Path)
UploadStat ==
  /\ Alive /\ call = "Upload" /\ pc = "stat"
  /\ \E ok \in BOOLEAN :
       /\ res' = [res EXCEPT !.stat = IF ok THEN "ok" ELSE "error"]
       /\ IF ok THEN /\ size' = actualSize
                     /\ pc' = "init"
                     /\ ret' = ret
                ELSE /\ size' = size
                     /\ pc' = "returned"
                     /\ ret' = "StatError"
  /\ UNCHANGED << call, panic, actualSize, partSize, totalParts, parts,
                  chunks, workCap, workClosed, report, reportCap,
                  reportClosed, wg, gen, heap, workers, coord, fails, handles,
                  destCreated, issued, finalizeCalls, ackOK, succeeded, count,
                  lastFetch, requeued, zeroHits, closes, header, request, sr,
                  lastAck >>

\* variant of initUpload whose caller goes on after a failed session-create
initUploadIgnoresError(ok, ps) ==
  /\ issued' = issued \cup {"init"}
  /\ res' = [res EXCEPT !.init = IF ok THEN "ok" ELSE "error"]
  /\ partSize' = ps
  /\ pc' = "setup"
  /\ ret' = ret

\* api.go 322-353: the session-create request; the part size Upload goes on
\* with is the one decoded from the server's answer (info.PartSize)
initUpload(ok, ps) ==
  /\ issued' = issued \cup {"init"}
  /\ res' = [res EXCEPT !.init = IF ok THEN "ok" ELSE "error"]
  /\ IF ok THEN /\ partSize' = ps
                /\ pc' = "setup"
                /\ ret' = ret
           ELSE /\ partSize' = partSize
                /\ pc' = "returned"
                /\ ret' = "InitError"

\* api.go 235-238
UploadInit ==
  /\ Alive /\ call = "Upload" /\ pc = "init"
  /\ \E ok \in BOOLEAN, ps \in ServerPartSizes : initUpload(ok, ps)
  /\ UNCHANGED << call, panic, actualSize, size, totalParts, parts, chunks,
                  workCap, workClosed, report, reportCap, reportClosed, wg,
                  gen, heap, workers, coord, fails, handles, destCreated,
                  finalizeCalls, ackOK, succeeded, count, lastFetch, requeued,
                  zeroHits, closes, header, request, sr, lastAck >>

\* a worker: where it is in processPart, the part it holds, whether every
\* step of its current attempt has succeeded so far, the ETag the storage
\* gives to the transfer request of its current attempt, and the ETag its
\* acknowledge request in flight carries
IdleUploadWorker ==
  [pc |-> "range", p |-> 0, clean |-> TRUE, tag |-> NoTag, posted |-> NoTag]

\* variant of UploadSetup that counts one range more than it plans
UploadSetupCountsOneMore ==
  /\ Alive /\ call = "Upload" /\ pc = "setup"
  /\ \E n \in Conversions(size, partSize) :
       /\ totalParts' = n
       /\ IF intMin(n, UploadWorkers) < 0
          THEN \* api.go 241: make(chan *part, <negative>)
               /\ panic' = MakeChanSize
               /\ UNCHANGED << workCap, reportCap, wg, workers, gen, coord,
                               pc >>
          ELSE /\ workCap' = intMin(n, UploadWorkers)
               /\ reportCap' = intMin(n, UploadWorkers)
               /\ IF wg + Counter32(n) < 0
                  THEN \* api.go 243: wg.Add leaves the counter negative
                       /\ wg' = wg + Counter32(n)
                       /\ panic' = NegativeCounter
                       /\ UNCHANGED << workers, gen, coord, pc >>
                  ELSE /\ wg' = wg + Counter32(n) + 1
                       /\ workers' = BagOfN(IdleUploadWorker,
                                            intMin(n, UploadWorkers))
                       /\ gen' = [start |-> 0, end |-> 0, count |-> 1,
                                  live |-> TRUE]
                       /\ coord' = [pc |-> "range", p |-> 0]
                       /\ pc' = "wait"
                       /\ panic' = panic
  /\ UNCHANGED << call, ret, actualSize, size, partSize, parts, chunks,
                  workClosed, report, reportClosed, heap, fails, handles,
                  destCreated, res, issued, finalizeCalls, ackOK, succeeded,
                  count, lastFetch, requeued, zeroHits, closes, header,
                  request, sr, lastAck >>

\* api.go 240-259: the range count, the channels, wg.Add, the planner, the
\* workers, the coordinator; a panic in make or in wg.Add comes before any
\* goroutine is started
UploadSetup ==
  /\ Alive /\ call = "Upload" /\ pc = "setup"
  /\ \E n \in Conversions(size, partSize) :
       /\ totalParts' = n
       /\ IF intMin(n, UploadWorkers) < 0
          THEN \* api.go 241: make(chan *part, <negative>)
               /\ panic' = MakeChanSize
               /\ UNCHANGED << workCap, reportCap, wg, workers, gen, coord,
                               pc >>
          ELSE /\ workCap' = intMin(n, UploadWorkers)
               /\ reportCap' = intMin(n, UploadWorkers)
               /\ IF wg + Counter32(n) < 0
                  THEN \* api.go 243: wg.Add leaves the counter negative
                       /\ wg' = wg + Counter32(n)
                       /\ panic' = NegativeCounter
                       /\ UNCHANGED << workers, gen, coord, pc >>
                  ELSE /\ wg' = wg + Counter32(n)
                       /\ workers' = BagOfN(IdleUploadWorker,
                                            intMin(n, UploadWorkers))
                       /\ gen' = [start |-> 0, end |-> 0, count |-> 1,
                                  live |-> TRUE]
                       /\ coord' = [pc |-> "range", p |-> 0]
                       /\ pc' = "wait"
                       /\ panic' = panic
  /\ UNCHANGED << call, ret, actualSize, size, partSize, parts, chunks,
                  workClosed, report, reportClosed, heap, fails, handles,
                  destCreated, res, issued, finalizeCalls, ackOK, succeeded,
                  count, lastFetch, requeued, zeroHits, closes, header,
                  request, sr, lastAck >>

\* variant of UploadWait that returns while one range is still outstanding
UploadWaitReturnsEarly ==
  /\ Alive /\ call = "Upload" /\ pc = "wait"
  /\ wg <= 1
  /\ pc' = "closeParts"
  /\ UNCHANGED << call, ret, panic, actualSize, size, partSize, totalParts,
                  parts, chunks, workCap, workClosed, report, reportCap,
                  reportClosed, wg, gen, heap, workers, coord, fails, handles,
                  destCreated, res, issued, finalizeCalls, ackOK, succeeded,
                  count, lastFetch, requeued, zeroHits, closes, header,
                  request, sr, lastAck >>

\* api.go 261: wg.Wait() returns once the counter is zero
UploadWait ==
  /\ Alive /\ call = "Upload" /\ pc = "wait"
  /\ wg = 0
  /\ pc' = "closeParts"
  /\ UNCHANGED << call, ret, panic, actualSize, size, partSize, totalParts,
                  parts, chunks, workCap, workClosed, report, reportCap,
                  reportClosed, wg, gen, heap, workers, coord, fails, handles,
                  destCreated, res, issued, finalizeCalls, ackOK, succeeded,
                  count, lastFetch, requeued, zeroHits, closes, header,
                  request, sr, lastAck >>

\* api.go 262: close(parts)
UploadCloseParts ==
  /\ Alive /\ call = "Upload" /\ pc = "closeParts"
  /\ workClosed' = TRUE
  /\ closes' = closes + 1
  /\ pc' = "closeReport"
  /\ UNCHANGED << call, ret, panic, actualSize, size, partSize, totalParts,
                  parts, chunks, workCap, report, reportCap, reportClosed, wg,
                  gen, heap, workers, coord, fails, handles, destCreated, res,
                  issued, finalizeCalls, ackOK, succeeded, count, lastFetch,
                  requeued, zeroHits, header, request, sr, lastAck >>

\* api.go 263-264: close(report), then the fixed sleep
UploadCloseReport ==
  /\ Alive /\ call = "Upload" /\ pc = "closeReport"
  /\ reportClosed' = TRUE
  /\ closes' = closes + 1
  /\ pc' = "finalize"
  /\ UNCHANGED << call, ret, panic, actualSize, size, partSize, totalParts,
                  parts, chunks, workCap, workClosed, report, reportCap, wg,
                  gen, heap, workers, coord, fails, handles, destCreated, res,
                  issued, finalizeCalls, ackOK, succeeded, count, lastFetch,
                  requeued, zeroHits, header, request, sr, lastAck >>

\* variant of uploadFinalize that reports success whatever the request did
uploadFinalizeDropsError(ok) ==
  /\ issued' = issued \cup {"finalize"}
  /\ finalizeCalls' = finalizeCalls + 1
  /\ res' = [res EXCEPT !.finalize = IF ok THEN "ok" ELSE "error"]
  /\ ret' = Nil

\* api.go 413-427: the session-complete request; its error is the result
uploadFinalize(ok) ==
  /\ issued' = issued \cup {"finalize"}
  /\ finalizeCalls' = finalizeCalls + 1
  /\ res' = [res EXCEPT !.finalize = IF ok THEN "ok" ELSE "error"]
  /\ ret' = IF ok THEN Nil ELSE "FinalizeError"

\* api.go 265
UploadFinalize ==
  /\ Alive /\ call = "Upload" /\ pc = "finalize"
  /\ \E ok \in BOOLEAN : uploadFinalize(ok)
  /\ pc' = "returned"
  /\ UNCHANGED << call, panic, actualSize, size, partSize, totalParts, parts,
                  chunks, workCap, workClosed, report, reportCap,
                  reportClosed, wg, gen, heap, workers, coord, fails, handles,
                  destCreated, ackOK, succeeded, count, lastFetch, requeued,
                  zeroHits, closes, header, request, sr, lastAck >>

\* variant of getParts without the clamp of the last range to the file size
getPartsUnclamped ==
  /\ Alive /\ call = "Upload" /\ gen.live
  /\ gen.end < size
  /\ LET end == gen.start + partSize
         p == [ID |-> gen.count, StartByte |-> gen.start, EndByte |-> end,
               ETag |-> NoTag, Error |-> Nil]
     IN IF workClosed
        THEN /\ panic' = SendOnClosed
             /\ UNCHANGED << parts, heap, count, gen, lastAck >>
        ELSE /\ Len(parts) < workCap
             /\ parts' = Append(parts, p.ID)
             /\ heap' = Append(heap, p)
             /\ count' = Append(count, [neg |-> 0, xfer |-> 0, ack |-> 0])
             /\ lastAck' = Append(lastAck, "none")
             /\ gen' = [gen EXCEPT !.start = end, !.end = end,
                                   !.count = gen.count + 1]
             /\ panic' = panic
  /\ UNCHANGED << call, pc, ret, actualSize, size, partSize, totalParts,
                  chunks, workCap, workClosed, report, reportCap,
                  reportClosed, wg, workers, coord, fails, handles,
                  destCreated, res, issued, finalizeCalls, ackOK, succeeded,
                  lastFetch, requeued, zeroHits, closes, header, request, sr >>

\* api.go 301-320: the planner goroutine; one loop iteration per step
getParts ==
  /\ Alive /\ call = "Upload" /\ gen.live
  /\ gen.end < size
  /\ LET end0 == gen.start + partSize
         end == IF end0 > size THEN size ELSE end0
         p == [ID |-> gen.count, StartByte |-> gen.start, EndByte |-> end,
               ETag |-> NoTag, Error |-> Nil]
     IN IF workClosed
        THEN /\ panic' = SendOnClosed
             /\ UNCHANGED << parts, heap, count, gen, lastAck >>
        ELSE /\ Len(parts) < workCap
             /\ parts' = Append(parts, p.ID)
             /\ heap' = Append(heap, p)
             /\ count' = Append(count, [neg |-> 0, xfer |-> 0, ack |-> 0])
             /\ lastAck' = Append(lastAck, "none")
             /\ gen' = [gen EXCEPT !.start = end, !.end = end,
                                   !.count = gen.count + 1]
             /\ panic' = panic
  /\ UNCHANGED << call, pc, ret, actualSize, size, partSize, totalParts,
                  chunks, workCap, workClosed, report, reportCap,
                  reportClosed, wg, workers, coord, fails, handles,
                  destCreated, res, issued, finalizeCalls, ackOK, succeeded,
                  lastFetch, requeued, zeroHits, closes, header, request, sr >>

\* api.go 276: for p := range in
processPartRange(w) ==
  /\ w.pc = "range"
  /\ \/ /\ parts # << >>
        /\ parts' = Tail(parts)
        /\ workers' = BagReplace(workers, w,
                        [pc |-> "negotiate", p |-> Head(parts), clean |-> TRUE,
                         tag |-> NoTag, posted |-> NoTag])
     \/ /\ parts = << >> /\ workClosed
        /\ parts' = parts
        /\ workers' = BagReplace(workers, w, [w EXCEPT !.pc = "exit"])
  /\ UNCHANGED << call, pc, ret, panic, actualSize, size, partSize,
                  totalParts, chunks, workCap, workClosed, report, reportCap,
                  reportClosed, wg, gen, heap, coord, fails, handles,
                  destCreated, res, issued, finalizeCalls, ackOK, succeeded,
                  count, lastFetch, requeued, zeroHits, closes, header,
                  request, sr, lastAck >>

\* api.go 355-367: the per-part negotiate request
partUploadInit(w, ok) ==
  /\ issued' = issued \cup {"negotiate"}
  /\ count' = [count EXCEPT ![w.p].neg = @ + 1]
  /\ IF ok
     THEN /\ workers' = BagReplace(workers, w,
                          [w EXCEPT !.pc = "transfer"])
          /\ UNCHANGED << heap, fails >>
     ELSE \* api.go 279-282: p.Error = err, then report <- p
          /\ heap' = [heap EXCEPT ![w.p].Error = Err]
          /\ fails' = fails + 1
          /\ workers' = BagReplace(workers, w,
                          [w EXCEPT !.pc = "reportNegotiate", !.clean = FALSE])

\* api.go 278-280
processPartNegotiate(w) ==
  /\ w.pc = "negotiate"
  /\ \E ok \in BOOLEAN : (ok \/ MayFail) /\ partUploadInit(w, ok)
  /\ UNCHANGED << call, pc, ret, panic, actualSize, size, partSize,
                  totalParts, parts, chunks, workCap, workClosed, report,
                  reportCap, reportClosed, wg, gen, coord, handles,
                  destCreated, res, finalizeCalls, ackOK, succeeded,
                  lastFetch, requeued, zeroHits, closes, header, request, sr,
                  lastAck >>

\* the tag the storage returns for the k-th transfer request of part id
TagOf(id, k) == << id, k >>

\* api.go 370-383: os.Open, read the bytes of the part, send the transfer
\* request with the grant; the worker then waits for the answer with the
\* handle open
partUploadOpen(w, ok) ==
  IF ok
  THEN /\ handles' = handles + 1
       /\ issued' = issued \cup {"transfer"}
       /\ count' = [count EXCEPT ![w.p].xfer = @ + 1]
       /\ workers' = BagReplace(workers, w,
                       [w EXCEPT !.pc = "transferring",
                                 !.tag = TagOf(w.p, count[w.p].xfer + 1)])
       /\ UNCHANGED << heap, fails >>
  ELSE \* api.go 371-373, 284-285: return err; p.Error = err
       /\ heap' = [heap EXCEPT ![w.p].Error = Err]
       /\ fails' = fails + 1
       /\ workers' = BagReplace(workers, w,
                       [w EXCEPT !.pc = "reportTransfer", !.clean = FALSE])
       /\ UNCHANGED << issued, count, handles >>

\* api.go 283-285: the call of partUpload, up to the wait for the answer
processPartTransfer(w) ==
  /\ w.pc = "transfer"
  /\ \E ok \in BOOLEAN : (ok \/ MayFail) /\ partUploadOpen(w, ok)
  /\ UNCHANGED << call, pc, ret, panic, actualSize, size, partSize,
                  totalParts, parts, chunks, workCap, workClosed, report,
                  reportCap, reportClosed, wg, gen, coord, destCreated, res,
                  finalizeCalls, ackOK, succeeded, lastFetch, requeued,
                  zeroHits, closes, header, request, sr, lastAck >>

\* api.go 384-390: the answer of the transfer request; the ETag is kept and
\* the handle closed on the success path only
partUploadDo(w, ok) ==
  IF ok
  THEN /\ heap' = [heap EXCEPT ![w.p].ETag = w.tag]
       /\ handles' = handles - 1
       /\ workers' = BagReplace(workers, w, [w EXCEPT !.pc = "acknowledge"])
       /\ fails' = fails
  ELSE \* api.go 384-386, 284-285: return err; p.Error = err
       /\ heap' = [heap EXCEPT ![w.p].Error = Err]
       /\ fails' = fails + 1
       /\ handles' = handles
       /\ workers' = BagReplace(workers, w,
                       [w EXCEPT !.pc = "reportTransfer", !.clean = FALSE,
                                 !.tag = NoTag])

\* api.go 283-285: partUpload returns
processPartTransferred(w) ==
  /\ w.pc = "transferring"
  /\ \E ok \in BOOLEAN : (ok \/ MayFail) /\ partUploadDo(w, ok)
  /\ UNCHANGED << call, pc, ret, panic, actualSize, size, partSize,
                  totalParts, parts, chunks, workCap, workClosed, report,
                  reportCap, reportClosed, wg, gen, coord, destCreated, res,
                  issued, finalizeCalls, ackOK, succeeded, count, lastFetch,
                  requeued, zeroHits, closes, header, request, sr, lastAck >>

\* api.go 394-408: the body of the acknowledge request is built from the
\* part number and the p.ETag read at this moment, and the request is sent;
\* the worker then waits for the answer
partReportUploadedBody(w) ==
  /\ issued' = issued \cup {"acknowledge"}
  /\ count' = [count EXCEPT ![w.p].ack = @ + 1]
  /\ workers' = BagReplace(workers, w,
                  [w EXCEPT !.pc = "acknowledging",
                            !.posted = heap[w.p].ETag])

\* api.go 288: the call of partReportUploaded, up to the wait for the answer
processPartAcknowledge(w) ==
  /\ w.pc = "acknowledge"
  /\ partReportUploadedBody(w)
  /\ UNCHANGED << call, pc, ret, panic, actualSize, size, partSize,
                  totalParts, parts, chunks, workCap, workClosed, report,
                  reportCap, reportClosed, wg, gen, heap, coord, fails,
                  handles, destCreated, res, finalizeCalls, ackOK, succeeded,
                  lastFetch, requeued, zeroHits, closes, header, request, sr,
                  lastAck >>

\* api.go 402-410: the answer of the acknowledge request; resp.StatusCode is
\* read before the error is looked at, and resp is nil when the request
\* itself failed.  The tag acknowledged is the one the request carried
partReportUploadedDo(w, outcome) ==
  /\ lastAck' = IF outcome # "ok" THEN lastAck
                ELSE [lastAck EXCEPT ![w.p] =
                        IF w.tag # NoTag /\ w.posted = w.tag
                        THEN "fresh" ELSE "stale"]
  /\ CASE outcome = "ok" ->
            /\ ackOK' = ackOK \cup {w.p}
            /\ succeeded' = IF w.clean THEN succeeded \cup {w.p} ELSE succeeded
            /\ workers' = BagReplace(workers, w,
                            [w EXCEPT !.pc = "report", !.posted = NoTag])
            /\ UNCHANGED << heap, fails, panic >>
       [] outcome = "errNoResponse" ->
            /\ panic' = "nil pointer dereference"
            /\ fails' = fails + 1
            /\ UNCHANGED << ackOK, succeeded, workers, heap >>
       [] outcome = "errResponse" ->
            /\ heap' = [heap EXCEPT ![w.p].Error = Err]
            /\ fails' = fails + 1
            /\ workers' = BagReplace(workers, w,
                            [w EXCEPT !.pc = "reportAcknowledge",
                                      !.clean = FALSE, !.posted = NoTag])
            /\ UNCHANGED << ackOK, succeeded, panic >>

\* api.go 288-290: partReportUploaded returns
processPartAcknowledged(w) ==
  /\ w.pc = "acknowledging"
  /\ \E outcome \in {"ok", "errNoResponse", "errResponse"} :
       (outcome = "ok" \/ MayFail) /\ partReportUploadedDo(w, outcome)
  /\ UNCHANGED << call, pc, ret, actualSize, size, partSize, totalParts,
                  parts, chunks, workCap, workClosed, report, reportCap,
                  reportClosed, wg, gen, coord, handles, destCreated, res,
                  issued, finalizeCalls, count, lastFetch, requeued, zeroHits,
                  closes, header, request, sr >>

\* variant of AfterReport in which every report ends the attempt
AfterReportShortCircuits(at) == "range"

\* where processPart continues after each of its four report <- p
AfterReport(at) ==
  CASE at = "reportNegotiate" -> "transfer"
    [] at = "reportTransfer" -> "acknowledge"
    [] at = "reportAcknowledge" -> "report"
    [] at = "report" -> "range"

\* api.go 281, 286, 291, 294: report <- p
processPartReport(w) ==
  /\ w.pc \in {"reportNegotiate", "reportTransfer", "reportAcknowledge",
               "report"}
  /\ IF reportClosed
     THEN /\ panic' = SendOnClosed
          /\ UNCHANGED << report, workers >>
     ELSE /\ Len(report) < reportCap
          /\ report' = Append(report, w.p)
          /\ workers' = BagReplace(workers, w,
                          IF w.pc = "report" THEN IdleUploadWorker
                          ELSE [w EXCEPT !.pc = AfterReport(w.pc)])
          /\ panic' = panic
  /\ UNCHANGED << call, pc, ret, actualSize, size, partSize, totalParts,
                  parts, chunks, workCap, workClosed, reportCap, reportClosed,
                  wg, gen, heap, coord, fails, handles, destCreated, res,
                  issued, finalizeCalls, ackOK, succeeded, count, lastFetch,
                  requeued, zeroHits, closes, header, request, sr, lastAck >>

\* api.go 275-299: one worker goroutine takes one step
processPart ==
  /\ Alive /\ call = "Upload"
  /\ \E w \in BagToSet(workers) :
       \/ processPartRange(w)
       \/ processPartNegotiate(w)
       \/ processPartTransfer(w)
       \/ processPartTransferred(w)
       \/ processPartAcknowledge(w)
       \/ processPartAcknowledged(w)
       \/ processPartReport(w)

\* api.go 250: for p := range report
UploadReportRange ==
  /\ Alive /\ call = "Upload" /\ coord.pc = "range"
  /\ \/ /\ report # << >>
        /\ report' = Tail(report)
        /\ coord' = [pc |-> "check", p |-> Head(report)]
     \/ /\ report = << >> /\ reportClosed
        /\ report' = report
        /\ coord' = [coord EXCEPT !.pc = "exit"]
  /\ UNCHANGED << call, pc, ret, panic, actualSize, size, partSize,
                  totalParts, parts, chunks, workCap, workClosed, reportCap,
                  reportClosed, wg, gen, heap, workers, fails, handles,
                  destCreated, res, issued, finalizeCalls, ackOK, succeeded,
                  count, lastFetch, requeued, zeroHits, closes, header,
                  request, sr, lastAck >>

\* sync.WaitGroup.Done: the counter may not become negative
Done ==
  /\ wg' = wg - 1
  /\ zeroHits' = IF wg - 1 = 0 THEN zeroHits + 1 ELSE zeroHits
  /\ panic' = IF wg - 1 < 0 THEN NegativeCounter ELSE panic

\* api.go 251-257: the error field of the shared part decides
UploadReportCheck ==
  /\ Alive /\ call = "Upload" /\ coord.pc = "check"
  /\ IF heap[coord.p].Error # Nil
     THEN /\ heap' = [heap EXCEPT ![coord.p].Error = Nil]
          /\ coord' = [coord EXCEPT !.pc = "send"]
          /\ UNCHANGED << wg, zeroHits, panic >>
     ELSE /\ Done
          /\ coord' = [pc |-> "range", p |-> 0]
          /\ heap' = heap
  /\ UNCHANGED << call, pc, ret, actualSize, size, partSize, totalParts,
                  parts, chunks, workCap, workClosed, report, reportCap,
                  reportClosed, gen, workers, fails, handles, destCreated,
                  res, issued, finalizeCalls, ackOK, succeeded, count,
                  lastFetch, requeued, closes, header, request, sr, lastAck >>

\* api.go 254: parts <- p
UploadReportRequeue ==
  /\ Alive /\ call = "Upload" /\ coord.pc = "send"
  /\ IF workClosed
     THEN /\ panic' = SendOnClosed
          /\ UNCHANGED << parts, coord >>
     ELSE /\ Len(parts) < workCap
          /\ parts' = Append(parts, coord.p)
          /\ coord' = [pc |-> "range", p |-> 0]
          /\ panic' = panic
  /\ UNCHANGED << call, pc, ret, actualSize, size, partSize, totalParts,
                  chunks, workCap, workClosed, report, reportCap,
                  reportClosed, wg, gen, heap, workers, fails, handles,
                  destCreated, res, issued, finalizeCalls, ackOK, succeeded,
                  count, lastFetch, requeued, zeroHits, closes, header,
                  request, sr, lastAck >>

NextUpload ==
  \/ UploadStat \/ UploadInit \/ UploadSetup \/ UploadWait
  \/ UploadCloseParts \/ UploadCloseReport \/ UploadFinalize
  \/ getParts \/ processPart
  \/ UploadReportRange \/ UploadReportCheck \/ UploadReportRequeue

SpecUpload == InitUpload /\ [][NextUpload]_vars

\* -------------------------------------------------------------- Download

\* part_002 55-64, 92-95: the download_info request
DownloadInfo ==
  /\ Alive /\ call = "Download" /\ pc = "info"
  /\ issued' = issued \cup {"info"}
  /\ \E ok \in BOOLEAN :
       /\ res' = [res EXCEPT !.info = IF ok THEN "ok" ELSE "error"]
       /\ IF ok THEN pc' = "size" /\ ret' = ret
                ELSE pc' = "returned" /\ ret' = "InfoError"
  /\ UNCHANGED << call, panic, actualSize, size, partSize, totalParts, parts,
                  chunks, workCap, workClosed, report, reportCap,
                  reportClosed, wg, gen, heap, workers, coord, fails, handles,
                  destCreated, finalizeCalls, ackOK, succeeded, count,
                  lastFetch, requeued, zeroHits, closes, header, request, sr,
                  lastAck >>

\* part_002 160-167: http.Get, then the first Content-Length value parsed
\* with the parse error dropped
fileSize(outcome) ==
  CASE outcome = "ok" -> [panic |-> "", r |-> actualSize]
    [] outcome = "getError" -> [panic |-> "panic(err)", r |-> 0]
    [] outcome = "noContentLength" ->
         [panic |-> "index out of range", r |-> 0]
    [] outcome = "badContentLength" -> [panic |-> "", r |-> 0]

\* part_002 102
DownloadSize ==
  /\ Alive /\ call = "Download" /\ pc = "size"
  /\ issued' = issued \cup {"probe"}
  /\ \E outcome \in {"ok", "getError", "noContentLength", "badContentLength"} :
       LET fs == fileSize(outcome) IN
         /\ panic' = fs.panic
         /\ size' = fs.r
         /\ pc' = IF fs.panic = "" THEN "setup" ELSE pc
         /\ res' = [res EXCEPT !.probe = outcome]
  /\ UNCHANGED << call, ret, actualSize, partSize, totalParts, parts, chunks,
                  workCap, workClosed, report, reportCap, reportClosed, wg,
                  gen, heap, workers, coord, fails, handles, destCreated,
                  finalizeCalls, ackOK, succeeded, count, lastFetch, requeued,
                  zeroHits, closes, header, request, sr, lastAck >>

IdleDownloadWorker ==
  [pc |-> "range",
   c |-> [StartByte |-> 0, EndByte |-> 0, PartNumber |-> 0, Error |-> Nil]]

\* part_002 98-124: channels, wg.Add, the planner, 16 workers, the coordinator
DownloadSetup ==
  /\ Alive /\ call = "Download" /\ pc = "setup"
  /\ workCap' = DownloadQueueCap
  /\ reportCap' = DownloadQueueCap
  /\ partSize' = PartSize
  /\ LET n == getNumberOfChunks(size, PartSize) IN
       /\ totalParts' = n
       /\ wg' = wg + n
  /\ gen' = [start |-> 0, end |-> PartSize - 1, count |-> 0, live |-> TRUE]
  /\ workers' = BagOfN(IdleDownloadWorker, DownloadWorkers)
  /\ coord' = [pc |-> "range", p |-> 0]
  /\ pc' = "wait"
  /\ UNCHANGED << call, ret, panic, actualSize, size, parts, chunks,
                  workClosed, report, reportClosed, heap, fails, handles,
                  destCreated, res, issued, finalizeCalls, ackOK, succeeded,
                  count, lastFetch, requeued, zeroHits, closes, header,
                  request, sr, lastAck >>

\* part_002 125: wg.Wait()
DownloadWait ==
  /\ Alive /\ call = "Download" /\ pc = "wait"
  /\ wg = 0
  /\ pc' = "closeReport"
  /\ UNCHANGED << call, ret, panic, actualSize, size, partSize, totalParts,
                  parts, chunks, workCap, workClosed, report, reportCap,
                  reportClosed, wg, gen, heap, workers, coord, fails, handles,
                  destCreated, res, issued, finalizeCalls, ackOK, succeeded,
                  count, lastFetch, requeued, zeroHits, closes, header,
                  request, sr, lastAck >>

\* part_002 126: close(report)
DownloadCloseReport ==
  /\ Alive /\ call = "Download" /\ pc = "closeReport"
  /\ reportClosed' = TRUE
  /\ closes' = closes + 1
  /\ pc' = "closeChunks"
  /\ UNCHANGED << call, ret, panic, actualSize, size, partSize, totalParts,
                  parts, chunks, workCap, workClosed, report, reportCap, wg,
                  gen, heap, workers, coord, fails, handles, destCreated, res,
                  issued, finalizeCalls, ackOK, succeeded, count, lastFetch,
                  requeued, zeroHits, header, request, sr, lastAck >>

\* part_002 127-128: close(chunks); return nil
DownloadCloseChunks ==
  /\ Alive /\ call = "Download" /\ pc = "closeChunks"
  /\ workClosed' = TRUE
  /\ closes' = closes + 1
  /\ pc' = "returned"
  /\ ret' = Nil
  /\ UNCHANGED << call, panic, actualSize, size, partSize, totalParts, parts,
                  chunks, workCap, report, reportCap, reportClosed, wg, gen,
                  heap, workers, coord, fails, handles, destCreated, res,
                  issued, finalizeCalls, ackOK, succeeded, count, lastFetch,
                  requeued, zeroHits, header, request, sr, lastAck >>

\* variant of generateChunks in which a chunk starts at the last byte of the
\* chunk before it
generateChunksOverlapping ==
  /\ Alive /\ call = "Download" /\ gen.live
  /\ gen.count < totalParts
  /\ LET c == [StartByte |-> gen.start, EndByte |-> gen.end,
               PartNumber |-> gen.count, Error |-> Nil]
         start == gen.end
         end0 == start + partSize + 1
         end == IF end0 > size THEN size ELSE end0
     IN IF workClosed
        THEN /\ panic' = SendOnClosed
             /\ UNCHANGED << chunks, lastFetch, gen >>
        ELSE /\ Len(chunks) < workCap
             /\ chunks' = Append(chunks, c)
             /\ lastFetch' = lastFetch @@ (c.PartNumber :> "none")
             /\ gen' = [gen EXCEPT !.start = start, !.end = end,
                                   !.count = gen.count + 1]
             /\ panic' = panic
  /\ UNCHANGED << call, pc, ret, actualSize, size, partSize, totalParts,
                  parts, workCap, workClosed, report, reportCap, reportClosed,
                  wg, heap, workers, coord, fails, handles, destCreated, res,
                  issued, finalizeCalls, ackOK, succeeded, count, requeued,
                  zeroHits, closes, header, request, sr, lastAck >>

\* part_002 77-89: the planner goroutine; one loop iteration per step
generateChunks ==
  /\ Alive /\ call = "Download" /\ gen.live
  /\ gen.count < totalParts
  /\ LET c == [StartByte |-> gen.start, EndByte |-> gen.end,
               PartNumber |-> gen.count, Error |-> Nil]
         start == gen.end + 1
         end0 == start + partSize + 1
         end == IF end0 > size THEN size ELSE end0
     IN IF workClosed
        THEN /\ panic' = SendOnClosed
             /\ UNCHANGED << chunks, lastFetch, gen >>
        ELSE /\ Len(chunks) < workCap
             /\ chunks' = Append(chunks, c)
             /\ lastFetch' = lastFetch @@ (c.PartNumber :> "none")
             /\ gen' = [gen EXCEPT !.start = start, !.end = end,
                                   !.count = gen.count + 1]
             /\ panic' = panic
  /\ UNCHANGED << call, pc, ret, actualSize, size, partSize, totalParts,
                  parts, workCap, workClosed, report, reportCap, reportClosed,
                  wg, heap, workers, coord, fails, handles, destCreated, res,
                  issued, finalizeCalls, ackOK, succeeded, count, requeued,
                  zeroHits, closes, header, request, sr, lastAck >>

\* part_002 133: for chunk := range chunks
downloadChunkRange(w) ==
  /\ w.pc = "range"
  /\ \/ /\ chunks # << >>
        /\ chunks' = Tail(chunks)
        /\ workers' = BagReplace(workers, w, [pc |-> "open", c |-> Head(chunks)])
     \/ /\ chunks = << >> /\ workClosed
        /\ chunks' = chunks
        /\ workers' = BagReplace(workers, w, [w EXCEPT !.pc = "exit"])
  /\ UNCHANGED << call, pc, ret, panic, actualSize, size, partSize,
                  totalParts, parts, workCap, workClosed, report, reportCap,
                  reportClosed, wg, gen, heap, coord, fails, handles,
                  destCreated, res, issued, finalizeCalls, ackOK, succeeded,
                  count, lastFetch, requeued, zeroHits, closes, header,
                  request, sr, lastAck >>

\* part_002 134-139: os.OpenFile(dst, O_CREATE|O_WRONLY)
downloadChunkOpen(w) ==
  /\ w.pc = "open"
  /\ \E ok \in BOOLEAN :
       /\ ok \/ MayFail
       /\ IF ok
          THEN /\ handles' = handles + 1
               /\ destCreated' = TRUE
               /\ workers' = BagReplace(workers, w, [w EXCEPT !.pc = "fetch"])
               /\ fails' = fails
               /\ lastFetch' = lastFetch
          ELSE /\ workers' = BagReplace(workers, w,
                               [w EXCEPT !.pc = "reportOpen", !.c.Error = "open"])
               /\ lastFetch' = [lastFetch EXCEPT ![w.c.PartNumber] = "openError"]
               /\ fails' = fails + 1
               /\ UNCHANGED << handles, destCreated >>
  /\ UNCHANGED << call, pc, ret, panic, actualSize, size, partSize,
                  totalParts, parts, chunks, workCap, workClosed, report,
                  reportCap, reportClosed, wg, gen, heap, coord, res, issued,
                  finalizeCalls, ackOK, succeeded, count, requeued, zeroHits,
                  closes, header, request, sr, lastAck >>

\* part_002 140-153: the ranged GET streamed into the file at StartByte
downloadChunkFetch(w) ==
  /\ w.pc = "fetch"
  /\ issued' = issued \cup {"fetch"}
  /\ \E ok \in BOOLEAN :
       /\ ok \/ MayFail
       /\ IF ok
          THEN /\ lastFetch' = [lastFetch EXCEPT ![w.c.PartNumber] = "ok"]
               /\ succeeded' = succeeded \cup {w.c.PartNumber}
               /\ workers' = BagReplace(workers, w, [w EXCEPT !.pc = "report"])
               /\ fails' = fails
          ELSE /\ lastFetch' = [lastFetch EXCEPT ![w.c.PartNumber] = "failed"]
               /\ workers' = BagReplace(workers, w,
                               [w EXCEPT !.pc = "report", !.c.Error = "fetch"])
               /\ fails' = fails + 1
               /\ succeeded' = succeeded
  /\ UNCHANGED << call, pc, ret, panic, actualSize, size, partSize,
                  totalParts, parts, chunks, workCap, workClosed, report,
                  reportCap, reportClosed, wg, gen, heap, coord, handles,
                  destCreated, res, finalizeCalls, ackOK, count, requeued,
                  zeroHits, closes, header, request, sr, lastAck >>

\* part_002 137, 154: report <- chunk
downloadChunkReport(w) ==
  /\ w.pc \in {"reportOpen", "report"}
  /\ IF reportClosed
     THEN /\ panic' = SendOnClosed
          /\ UNCHANGED << report, workers >>
     ELSE /\ Len(report) < reportCap
          /\ report' = Append(report, w.c)
          /\ workers' = BagReplace(workers, w,
               IF w.pc = "reportOpen" THEN IdleDownloadWorker
               ELSE [w EXCEPT !.pc = "done"])
          /\ panic' = panic
  /\ UNCHANGED << call, pc, ret, actualSize, size, partSize, totalParts,
                  parts, chunks, workCap, workClosed, reportCap, reportClosed,
                  wg, gen, heap, coord, fails, handles, destCreated, res,
                  issued, finalizeCalls, ackOK, succeeded, count, lastFetch,
                  requeued, zeroHits, closes, header, request, sr, lastAck >>

\* part_002 155-156: f.Close(); wg.Done()
downloadChunkDone(w) ==
  /\ w.pc = "done"
  /\ handles' = handles - 1
  /\ Done
  /\ workers' = BagReplace(workers, w, IdleDownloadWorker)
  /\ UNCHANGED << call, pc, ret, actualSize, size, partSize, totalParts,
                  parts, chunks, workCap, workClosed, report, reportCap,
                  reportClosed, gen, heap, coord, fails, destCreated, res,
                  issued, finalizeCalls, ackOK, succeeded, count, lastFetch,
                  requeued, closes, header, request, sr, lastAck >>

\* part_002 131-158: one worker goroutine takes one step
downloadChunk ==
  /\ Alive /\ call = "Download"
  /\ \E w \in BagToSet(workers) :
       \/ downloadChunkRange(w)
       \/ downloadChunkOpen(w)
       \/ downloadChunkFetch(w)
       \/ downloadChunkReport(w)
       \/ downloadChunkDone(w)

\* part_002 115: for chunk := range report
DownloadReportRange ==
  /\ Alive /\ call = "Download" /\ coord.pc = "range"
  /\ \/ /\ report # << >>
        /\ report' = Tail(report)
        /\ coord' = [pc |-> "check", p |-> Head(report)]
     \/ /\ report = << >> /\ reportClosed
        /\ report' = report
        /\ coord' = [coord EXCEPT !.pc = "exit"]
  /\ UNCHANGED << call, pc, ret, panic, actualSize, size, partSize,
                  totalParts, parts, chunks, workCap, workClosed, reportCap,
                  reportClosed, wg, gen, heap, workers, fails, handles,
                  destCreated, res, issued, finalizeCalls, ackOK, succeeded,
                  count, lastFetch, requeued, zeroHits, closes, header,
                  request, sr, lastAck >>

\* variant of DownloadReportCheck that adds the failed chunk back to the
\* counter before the retry
DownloadReportCheckAddsBack ==
  /\ Alive /\ call = "Download" /\ coord.pc = "check"
  /\ IF coord.p.Error # Nil
     THEN /\ requeued' = requeued \cup {coord.p.Error}
          /\ coord' = [pc |-> "send", p |-> [coord.p EXCEPT !.Error = Nil]]
          /\ wg' = wg + 1
          /\ zeroHits' = IF wg + 1 = 0 THEN zeroHits + 1 ELSE zeroHits
     ELSE /\ coord' = [pc |-> "range", p |-> 0]
          /\ UNCHANGED << requeued, wg, zeroHits >>
  /\ UNCHANGED << call, pc, ret, panic, actualSize, size, partSize,
                  totalParts, parts, chunks, workCap, workClosed, report,
                  reportCap, reportClosed, gen, heap, workers, fails, handles,
                  destCreated, res, issued, finalizeCalls, ackOK, succeeded,
                  count, lastFetch, closes, header, request, sr, lastAck >>

\* part_002 116-122: a failed chunk has its error cleared for the retry; the
\* success branch is empty
DownloadReportCheck ==
  /\ Alive /\ call = "Download" /\ coord.pc = "check"
  /\ IF coord.p.Error # Nil
     THEN /\ requeued' = requeued \cup {coord.p.Error}
          /\ coord' = [pc |-> "send", p |-> [coord.p EXCEPT !.Error = Nil]]
     ELSE /\ coord' = [pc |-> "range", p |-> 0]
          /\ requeued' = requeued
  /\ UNCHANGED << call, pc, ret, panic, actualSize, size, partSize,
                  totalParts, parts, chunks, workCap, workClosed, report,
                  reportCap, reportClosed, wg, gen, heap, workers, fails,
                  handles, destCreated, res, issued, finalizeCalls, ackOK,
                  succeeded, count, lastFetch, zeroHits, closes, header,
                  request, sr, lastAck >>

\* part_002 119: chunks <- chunk
DownloadReportRequeue ==
  /\ Alive /\ call = "Download" /\ coord.pc = "send"
  /\ IF workClosed
     THEN /\ panic' = SendOnClosed
          /\ UNCHANGED << chunks, coord >>
     ELSE /\ Len(chunks) < workCap
          /\ chunks' = Append(chunks, coord.p)
          /\ coord' = [pc |-> "range", p |-> 0]
          /\ panic' = panic
  /\ UNCHANGED << call, pc, ret, actualSize, size, partSize, totalParts,
                  parts, workCap, workClosed, report, reportCap, reportClosed,
                  wg, gen, heap, workers, fails, handles, destCreated, res,
                  issued, finalizeCalls, ackOK, succeeded, count, lastFetch,
                  requeued, zeroHits, closes, header, request, sr, lastAck >>

NextDownload ==
  \/ DownloadInfo \/ DownloadSize \/ DownloadSetup \/ DownloadWait
  \/ DownloadCloseReport \/ DownloadCloseChunks
  \/ generateChunks \/ downloadChunk
  \/ DownloadReportRange \/ DownloadReportCheck \/ DownloadReportRequeue

SpecDownload == InitDownload /\ [][NextDownload]_vars

\* ------------------------------------------------------------ whole model
Next == NextUpload \/ NextDownload

Spec == Init /\ [][Next]_vars

\* the Go scheduler runs every goroutine that can take a step: the caller,
\* the planner, the workers and the coordinator each get their turn
Fairness ==
  /\ WF_vars(UploadStat \/ UploadInit \/ UploadSetup \/ UploadWait
               \/ UploadCloseParts \/ UploadCloseReport \/ UploadFinalize)
  /\ WF_vars(DownloadInfo \/ DownloadSize \/ DownloadSetup \/ DownloadWait
               \/ DownloadCloseReport \/ DownloadCloseChunks)
  /\ WF_vars(getParts) /\ WF_vars(generateChunks)
  /\ WF_vars(processPart) /\ WF_vars(downloadChunk)
  /\ WF_vars(UploadReportRange \/ UploadReportCheck \/ UploadReportRequeue)
  /\ WF_vars(DownloadReportRange \/ DownloadReportCheck
               \/ DownloadReportRequeue)

FairSpec == Spec /\ Fairness

\* ------------------------------------------------- the range planners alone
\* Upload after os.Stat and initUpload succeeded, for every small file size
\* and every small part size the server may name
InitPlanUpload ==
  /\ call = "Upload" /\ pc = "setup"
  /\ actualSize \in 0..MaxPlanSize /\ size = actualSize
  /\ partSize \in 1..MaxPlanPartSize
  /\ res = [stat |-> "ok", init |-> "ok", finalize |-> "none",
            info |-> "none", probe |-> "none"]
  /\ issued = {"init"}

\* sizes up to n parts that lie around the multiples of PartSize
PlanChunkSizes(n) ==
  { s \in { k * PartSize + d : k \in 0..n, d \in (0 - 2)..2 } : s >= 0 }

\* Download after the download_info request and the size probe succeeded
InitPlanDownload ==
  /\ call = "Download" /\ pc = "setup"
  /\ actualSize \in PlanChunkSizes(MaxChunks) /\ size = actualSize
  /\ partSize = 0
  /\ res = [stat |-> "none", init |-> "none", finalize |-> "none",
            info |-> "ok", probe |-> "ok"]
  /\ issued = {"info", "probe"}

InitPlan ==
  /\ InitPlanUpload \/ InitPlanDownload
  /\ ret = "none" /\ panic = ""
  /\ totalParts = 0
  /\ parts = << >> /\ chunks = << >>
  /\ workCap = 0 /\ workClosed = FALSE
  /\ report = << >> /\ reportCap = 0 /\ reportClosed = FALSE
  /\ wg = 0
  /\ gen = NoGen
  /\ heap = << >>
  /\ workers = EmptyBag
  /\ coord = NoCoord
  /\ fails = 0 /\ handles = 0 /\ destCreated = FALSE
  /\ finalizeCalls = 0 /\ ackOK = {} /\ count = << >>
  /\ succeeded = {}
  /\ lastFetch = << >> /\ requeued = {}
  /\ zeroHits = 0 /\ closes = 0
  /\ header = NoHeader /\ request = NoRequest /\ sr = NoResult
  /\ lastAck = << >>

\* the driver sets the transfer up and the planner goroutine runs; nothing
\* takes a range from the work channel
NextPlan == UploadSetup \/ getParts \/ DownloadSetup \/ generateChunks

SpecPlan == InitPlan /\ [][NextPlan]_vars

\* ------------------------------------------- responses and the file service
\* characters of header values: digits, signs and a letter
Chars == {"0", "7", "-", "+", "x"}

DigitValue ==
  [c \in {"0", "1", "2", "3", "4", "5", "6", "7", "8", "9"} |->
     CASE c = "0" -> 0 [] c = "1" -> 1 [] c = "2" -> 2 [] c = "3" -> 3
       [] c = "4" -> 4 [] c = "5" -> 5 [] c = "6" -> 6 [] c = "7" -> 7
       [] c = "8" -> 8 [] c = "9" -> 9]

\* header values of at most n characters, "" (header not set) included
HeaderValues(n) == UNION { [1..k -> Chars] : k \in 0..n }

RECURSIVE DigitsValue(_)
DigitsValue(d) ==
  IF Len(d) = 0 THEN 0
  ELSE DigitsValue(SubSeq(d, 1, Len(d) - 1)) * 10 + DigitValue[d[Len(d)]]

\* strconv.Atoi: an optional sign, then one or more decimal digits; anything
\* else is a syntax error with value 0 (values of so few digits are far
\* inside the range of int)
Atoi(s) ==
  LET signed == Len(s) > 0 /\ s[1] \in {"+", "-"}
      d == IF signed THEN SubSeq(s, 2, Len(s)) ELSE s
  IN IF Len(d) = 0 \/ \E i \in 1..Len(d) : d[i] \notin DOMAIN DigitValue
     THEN [v |-> 0, err |-> "ErrSyntax"]
     ELSE [v |-> IF s[1] = "-" THEN 0 - DigitsValue(d) ELSE DigitsValue(d),
           err |-> Nil]

\* strconv.ParseInt(s, 10, 64) reads the same syntax
ParseInt(s) == Atoi(s)

\* pagination.go 62-78: the total is parsed with the error dropped (the Link
\* header is left out)
NewPage(h) ==
  [TotalMatchingQuery |-> IF h.total # << >> THEN Atoi(h.total).v ELSE 0]

\* response.go 55-76: limit and remaining stop at their parse error; the
\* parse error of reset lives in the scope of its if statement only
getRateLimit(h) ==
  LET l == IF h.limit # << >> THEN Atoi(h.limit) ELSE [v |-> 0, err |-> Nil]
      r == IF h.remaining # << >> THEN Atoi(h.remaining)
           ELSE [v |-> 0, err |-> Nil]
      t == ParseInt(h.reset)
      rate == [nil |-> FALSE, Limit |-> l.v, Remaining |-> 0,
               Reset |-> ZeroTime]
  IN IF l.err # Nil THEN [rate |-> rate, err |-> l.err]
     ELSE IF r.err # Nil
     THEN [rate |-> [rate EXCEPT !.Remaining = r.v], err |-> r.err]
     ELSE [rate |-> [rate EXCEPT !.Remaining = r.v,
                       !.Reset = IF h.reset # << >> /\ t.v # 0 /\ t.err = Nil
                                 THEN [set |-> TRUE, unix |-> t.v]
                                 ELSE ZeroTime],
           err |-> Nil]

\* variant of getTotalMatchingQuery that drops the parse error
getTotalMatchingQueryDropsError(h) ==
  IF h.total # << >> THEN [v |-> Atoi(h.total).v, err |-> Nil]
  ELSE [v |-> 0, err |-> Nil]

\* response.go 80-85
getTotalMatchingQuery(h) ==
  IF h.total # << >> THEN Atoi(h.total) ELSE [v |-> 0, err |-> Nil]

\* response.go 33-51: the Response is returned with every error
NewResponse(h) ==
  LET r == [nil |-> FALSE, Page |-> NewPage(h), Rate |-> NilRate]
      rl == getRateLimit(h)
      t == getTotalMatchingQuery(h)
  IN IF rl.err # Nil THEN [response |-> r, err |-> rl.err]
     ELSE IF t.err # Nil
     THEN [response |-> [r EXCEPT !.Rate = rl.rate], err |-> t.err]
     ELSE [response |-> [r EXCEPT !.Rate = rl.rate,
                           !.Page.TotalMatchingQuery = t.v],
           err |-> Nil]

\* api.go 75-82: send the request; a failed exchange gives (nil, err), any
\* other the NewResponse of what the server answered.  method is "" when the
\* call sets none and leaves it to the client, q holds the query parameters
\* the call adds
Do(op, method, path, q, ok) ==
  /\ request' = [op |-> op, method |-> method, path |-> path, query |-> q]
  /\ sr' = IF ok THEN NewResponse(header)
           ELSE [response |-> NilResponse, err |-> Err]

FileIDs == {"f1"}
ProjectIDs == {"p1"}
Usernames == {"u1"}
UploadIDs == {"up1"}

\* pagination.go 41-45: the *ListOptions a caller passes: nil, the zero value
\* and a second page (Fields is left out)
ListOptionsValues ==
  { [nil |-> TRUE, Limit |-> 0, Offset |-> 0],
    [nil |-> FALSE, Limit |-> 0, Offset |-> 0],
    [nil |-> FALSE, Limit |-> 2, Offset |-> 2] }

\* part_001 17-32: limit and offset become query parameters; omitempty
\* leaves out a field that is zero, and a nil pointer gives no parameter
listOptions(opt) ==
  [project |-> "",
   limit |-> IF opt.nil THEN 0 ELSE opt.Limit,
   offset |-> IF opt.nil THEN 0 ELSE opt.Offset]

\* files.go 48-58
List ==
  /\ Alive /\ call \in {"File", "Service"}
  /\ \E projectID \in ProjectIDs, ok \in BOOLEAN :
       Do("List", "GET", << "files" >>, [NoQuery EXCEPT !.project = projectID], ok)
  /\ UNCHANGED << call, pc, ret, panic, actualSize, size, partSize,
                  totalParts, parts, chunks, workCap, workClosed, report,
                  reportCap, reportClosed, wg, gen, heap, workers, coord,
                  fails, handles, destCreated, res, issued, finalizeCalls,
                  ackOK, succeeded, count, lastFetch, requeued, zeroHits,
                  closes, header, lastAck >>

\* files.go 60-69
ByID ==
  /\ Alive /\ call \in {"File", "Service"}
  /\ \E fileID \in FileIDs, ok \in BOOLEAN :
       Do("ByID", "GET", << "files", fileID >>, NoQuery, ok)
  /\ UNCHANGED << call, pc, ret, panic, actualSize, size, partSize,
                  totalParts, parts, chunks, workCap, workClosed, report,
                  reportCap, reportClosed, wg, gen, heap, workers, coord,
                  fails, handles, destCreated, res, issued, finalizeCalls,
                  ackOK, succeeded, count, lastFetch, requeued, zeroHits,
                  closes, header, lastAck >>

\* files.go 71-77
Delete ==
  /\ Alive /\ call \in {"File", "Service"}
  /\ \E fileID \in FileIDs, ok \in BOOLEAN :
       Do("Delete", "GET", << "files", fileID >>, NoQuery, ok)
  /\ UNCHANGED << call, pc, ret, panic, actualSize, size, partSize,
                  totalParts, parts, chunks, workCap, workClosed, report,
                  reportCap, reportClosed, wg, gen, heap, workers, coord,
                  fails, handles, destCreated, res, issued, finalizeCalls,
                  ackOK, succeeded, count, lastFetch, requeued, zeroHits,
                  closes, header, lastAck >>

\* api.go 190-199: the path is spelled multiplart in the source
UploadList ==
  /\ Alive /\ call \in {"Service"}
  /\ \E ok \in BOOLEAN :
       Do("UploadList", "GET", << "upload", "multiplart" >>, NoQuery, ok)
  /\ UNCHANGED << call, pc, ret, panic, actualSize, size, partSize,
                  totalParts, parts, chunks, workCap, workClosed, report,
                  reportCap, reportClosed, wg, gen, heap, workers, coord,
                  fails, handles, destCreated, res, issued, finalizeCalls,
                  ackOK, succeeded, count, lastFetch, requeued, zeroHits,
                  closes, header, lastAck >>

\* api.go 201-207
Abort ==
  /\ Alive /\ call \in {"Service"}
  /\ \E uploadID \in UploadIDs, ok \in BOOLEAN :
       Do("Abort", "DELETE", << "upload", "multipart", uploadID >>, NoQuery, ok)
  /\ UNCHANGED << call, pc, ret, panic, actualSize, size, partSize,
                  totalParts, parts, chunks, workCap, workClosed, report,
                  reportCap, reportClosed, wg, gen, heap, workers, coord,
                  fails, handles, destCreated, res, issued, finalizeCalls,
                  ackOK, succeeded, count, lastFetch, requeued, zeroHits,
                  closes, header, lastAck >>

\* user.go 47-55
Me ==
  /\ Alive /\ call \in {"Service"}
  /\ \E ok \in BOOLEAN :
       Do("Me", "", << "user" >>, NoQuery, ok)
  /\ UNCHANGED << call, pc, ret, panic, actualSize, size, partSize,
                  totalParts, parts, chunks, workCap, workClosed, report,
                  reportCap, reportClosed, wg, gen, heap, workers, coord,
                  fails, handles, destCreated, res, issued, finalizeCalls,
                  ackOK, succeeded, count, lastFetch, requeued, zeroHits,
                  closes, header, lastAck >>

\* user.go 57-66
User ==
  /\ Alive /\ call \in {"Service"}
  /\ \E username \in Usernames, ok \in BOOLEAN :
       Do("User", "", << "users", username >>, NoQuery, ok)
  /\ UNCHANGED << call, pc, ret, panic, actualSize, size, partSize,
                  totalParts, parts, chunks, workCap, workClosed, report,
                  reportCap, reportClosed, wg, gen, heap, workers, coord,
                  fails, handles, destCreated, res, issued, finalizeCalls,
                  ackOK, succeeded, count, lastFetch, requeued, zeroHits,
                  closes, header, lastAck >>

\* part_002 55-64
Info ==
  /\ Alive /\ call \in {"Service"}
  /\ \E fileID \in FileIDs, ok \in BOOLEAN :
       Do("Info", "", << "files", fileID, "download_info" >>, NoQuery, ok)
  /\ UNCHANGED << call, pc, ret, panic, actualSize, size, partSize,
                  totalParts, parts, chunks, workCap, workClosed, report,
                  reportCap, reportClosed, wg, gen, heap, workers, coord,
                  fails, handles, destCreated, res, issued, finalizeCalls,
                  ackOK, succeeded, count, lastFetch, requeued, zeroHits,
                  closes, header, lastAck >>

\* part_003 93-102; every project call starts from /projects (part_003 86)
ProjectList ==
  /\ Alive /\ call \in {"Service"}
  /\ \E opt \in ListOptionsValues, ok \in BOOLEAN :
       Do("ProjectList", "GET", << "projects" >>, listOptions(opt), ok)
  /\ UNCHANGED << call, pc, ret, panic, actualSize, size, partSize,
                  totalParts, parts, chunks, workCap, workClosed, report,
                  reportCap, reportClosed, wg, gen, heap, workers, coord,
                  fails, handles, destCreated, res, issued, finalizeCalls,
                  ackOK, succeeded, count, lastFetch, requeued, zeroHits,
                  closes, header, lastAck >>

\* part_003 104-114
ListForUser ==
  /\ Alive /\ call \in {"Service"}
  /\ \E username \in Usernames, opt \in ListOptionsValues, ok \in BOOLEAN :
       Do("ListForUser", "GET", << "projects", username >>, listOptions(opt), ok)
  /\ UNCHANGED << call, pc, ret, panic, actualSize, size, partSize,
                  totalParts, parts, chunks, workCap, workClosed, report,
                  reportCap, reportClosed, wg, gen, heap, workers, coord,
                  fails, handles, destCreated, res, issued, finalizeCalls,
                  ackOK, succeeded, count, lastFetch, requeued, zeroHits,
                  closes, header, lastAck >>

\* part_003 116-125
ProjectByID ==
  /\ Alive /\ call \in {"Service"}
  /\ \E projectID \in ProjectIDs, ok \in BOOLEAN :
       Do("ProjectByID", "GET", << "projects", projectID >>, NoQuery, ok)
  /\ UNCHANGED << call, pc, ret, panic, actualSize, size, partSize,
                  totalParts, parts, chunks, workCap, workClosed, report,
                  reportCap, reportClosed, wg, gen, heap, workers, coord,
                  fails, handles, destCreated, res, issued, finalizeCalls,
                  ackOK, succeeded, count, lastFetch, requeued, zeroHits,
                  closes, header, lastAck >>

\* part_003 127-136
Create ==
  /\ Alive /\ call \in {"Service"}
  /\ \E ok \in BOOLEAN :
       Do("Create", "POST", << "projects" >>, NoQuery, ok)
  /\ UNCHANGED << call, pc, ret, panic, actualSize, size, partSize,
                  totalParts, parts, chunks, workCap, workClosed, report,
                  reportCap, reportClosed, wg, gen, heap, workers, coord,
                  fails, handles, destCreated, res, issued, finalizeCalls,
                  ackOK, succeeded, count, lastFetch, requeued, zeroHits,
                  closes, header, lastAck >>

\* part_003 138-144
ProjectDelete ==
  /\ Alive /\ call \in {"Service"}
  /\ \E projectID \in ProjectIDs, ok \in BOOLEAN :
       Do("ProjectDelete", "DELETE", << "projects", projectID >>, NoQuery, ok)
  /\ UNCHANGED << call, pc, ret, panic, actualSize, size, partSize,
                  totalParts, parts, chunks, workCap, workClosed, report,
                  reportCap, reportClosed, wg, gen, heap, workers, coord,
                  fails, handles, destCreated, res, issued, finalizeCalls,
                  ackOK, succeeded, count, lastFetch, requeued, zeroHits,
                  closes, header, lastAck >>

\* part_003 146-156
Modify ==
  /\ Alive /\ call \in {"Service"}
  /\ \E projectID \in ProjectIDs, ok \in BOOLEAN :
       Do("Modify", "PATCH", << "projects", projectID >>, NoQuery, ok)
  /\ UNCHANGED << call, pc, ret, panic, actualSize, size, partSize,
                  totalParts, parts, chunks, workCap, workClosed, report,
                  reportCap, reportClosed, wg, gen, heap, workers, coord,
                  fails, handles, destCreated, res, issued, finalizeCalls,
                  ackOK, succeeded, count, lastFetch, requeued, zeroHits,
                  closes, header, lastAck >>

\* part_003 158-169
Members ==
  /\ Alive /\ call \in {"Service"}
  /\ \E projectID \in ProjectIDs, opt \in ListOptionsValues, ok \in BOOLEAN :
       Do("Members", "GET", << "projects", projectID, "members" >>, listOptions(opt), ok)
  /\ UNCHANGED << call, pc, ret, panic, actualSize, size, partSize,
                  totalParts, parts, chunks, workCap, workClosed, report,
                  reportCap, reportClosed, wg, gen, heap, workers, coord,
                  fails, handles, destCreated, res, issued, finalizeCalls,
                  ackOK, succeeded, count, lastFetch, requeued, zeroHits,
                  closes, header, lastAck >>

\* part_003 171-182
AddMember ==
  /\ Alive /\ call \in {"Service"}
  /\ \E projectID \in ProjectIDs, ok \in BOOLEAN :
       Do("AddMember", "POST", << "projects", projectID, "members" >>, NoQuery, ok)
  /\ UNCHANGED << call, pc, ret, panic, actualSize, size, partSize,
                  totalParts, parts, chunks, workCap, workClosed, report,
                  reportCap, reportClosed, wg, gen, heap, workers, coord,
                  fails, handles, destCreated, res, issued, finalizeCalls,
                  ackOK, succeeded, count, lastFetch, requeued, zeroHits,
                  closes, header, lastAck >>

\* part_003 184-194
RemoveMember ==
  /\ Alive /\ call \in {"Service"}
  /\ \E projectID \in ProjectIDs, username \in Usernames, ok \in BOOLEAN :
       Do("RemoveMember", "DELETE", << "projects", projectID, "members", username >>, NoQuery, ok)
  /\ UNCHANGED << call, pc, ret, panic, actualSize, size, partSize,
                  totalParts, parts, chunks, workCap, workClosed, report,
                  reportCap, reportClosed, wg, gen, heap, workers, coord,
                  fails, handles, destCreated, res, issued, finalizeCalls,
                  ackOK, succeeded, count, lastFetch, requeued, zeroHits,
                  closes, header, lastAck >>

\* part_003 196-208
GetMember ==
  /\ Alive /\ call \in {"Service"}
  /\ \E projectID \in ProjectIDs, username \in Usernames, ok \in BOOLEAN :
       Do("GetMember", "GET", << "projects", projectID, "members", username >>, NoQuery, ok)
  /\ UNCHANGED << call, pc, ret, panic, actualSize, size, partSize,
                  totalParts, parts, chunks, workCap, workClosed, report,
                  reportCap, reportClosed, wg, gen, heap, workers, coord,
                  fails, handles, destCreated, res, issued, finalizeCalls,
                  ackOK, succeeded, count, lastFetch, requeued, zeroHits,
                  closes, header, lastAck >>

\* part_003 210-224
ChangePermissions ==
  /\ Alive /\ call \in {"Service"}
  /\ \E projectID \in ProjectIDs, username \in Usernames, ok \in BOOLEAN :
       Do("ChangePermissions", "PUT", << "projects", projectID, "members", username >>, NoQuery, ok)
  /\ UNCHANGED << call, pc, ret, panic, actualSize, size, partSize,
                  totalParts, parts, chunks, workCap, workClosed, report,
                  reportCap, reportClosed, wg, gen, heap, workers, coord,
                  fails, handles, destCreated, res, issued, finalizeCalls,
                  ackOK, succeeded, count, lastFetch, requeued, zeroHits,
                  closes, header, lastAck >>

\* no transfer is in progress
InitClient ==
  /\ request = NoRequest /\ sr = NoResult
  /\ lastAck = << >>
  /\ actualSize = 0 /\ size = 0 /\ partSize = 0
  /\ res = [stat |-> "none", init |-> "none", finalize |-> "none",
            info |-> "none", probe |-> "none"]
  /\ issued = {}
  /\ ret = "none" /\ panic = ""
  /\ totalParts = 0
  /\ parts = << >> /\ chunks = << >>
  /\ workCap = 0 /\ workClosed = FALSE
  /\ report = << >> /\ reportCap = 0 /\ reportClosed = FALSE
  /\ wg = 0
  /\ gen = NoGen
  /\ heap = << >>
  /\ workers = EmptyBag
  /\ coord = NoCoord
  /\ fails = 0 /\ handles = 0 /\ destCreated = FALSE
  /\ finalizeCalls = 0 /\ ackOK = {} /\ count = << >>
  /\ succeeded = {}
  /\ lastFetch = << >> /\ requeued = {}
  /\ zeroHits = 0 /\ closes = 0

\* a client about to call the file service, for every set of headers the
\* server may answer with
InitFile ==
  /\ call = "File" /\ pc = "idle"
  /\ header \in [limit : HeaderValues(1), remaining : HeaderValues(1),
                  reset : HeaderValues(1), total : HeaderValues(MaxHeaderLen)]
  /\ InitClient

\* a client about to call any of the services; the server answers with or
\* without a total and a rate limit
InitService ==
  /\ call = "Service" /\ pc = "idle"
  /\ header \in [limit : {<< >>, << "7" >>}, remaining : {<< >>},
                  reset : {<< >>}, total : HeaderValues(1)]
  /\ InitClient

NextFile == List \/ ByID \/ Delete

SpecFile == InitFile /\ [][NextFile]_vars

NextService ==
  \/ NextFile
  \/ UploadList \/ Abort
  \/ Me \/ User
  \/ Info
  \/ ProjectList \/ ListForUser \/ ProjectByID \/ Create \/ ProjectDelete
  \/ Modify \/ Members \/ AddMember \/ RemoveMember \/ GetMember
  \/ ChangePermissions

SpecService == InitService /\ [][NextService]_vars

\* ------------------------------------------------------------- properties
\* the ranges the driver planned: parts are numbered from 1, chunks from 0
Ranges == IF call = "Upload" THEN 1..totalParts ELSE 0..(totalParts - 1)

\* the work channel of the running driver
Work == IF call = "Upload" THEN parts ELSE chunks

ReportPcs == {"reportNegotiate", "reportTransfer", "reportAcknowledge",
              "report", "reportOpen"}

\* the coordinator waits in its re-enqueue on a full work channel
CoordinatorBlocked ==
  coord.pc = "send" /\ ~workClosed /\ Len(Work) >= workCap

\* the worker waits in report <- p on a full result channel
WorkerBlocked(w) ==
  w.pc \in ReportPcs /\ ~reportClosed /\ Len(report) >= reportCap

QueueDeadlock ==
  /\ CoordinatorBlocked
  /\ workers # EmptyBag
  /\ \A w \in BagToSet(workers) : WorkerBlocked(w)

\* C1: a call returns nil only after every planned range was acknowledged
\* successfully (Upload, and the session-complete call succeeded) or its most
\* recent fetch succeeded (Download)
C1_NilOnlyWhenAllRangesDone ==
  (pc = "returned" /\ ret = Nil) =>
    /\ call = "Upload" =>
         (\A r \in Ranges : r \in ackOK) /\ res.finalize = "ok"
    /\ call = "Download" =>
         \A r \in Ranges : r \in DOMAIN lastFetch /\ lastFetch[r] = "ok"

\* C2: in Upload no part request is issued before session-init has completed,
\* and session-complete is issued only after every part 1..n has had an
\* acknowledge call that succeeded
C2_InitFirstFinalizeLast ==
  call = "Upload" =>
    /\ (issued \cap {"negotiate", "transfer", "acknowledge"} # {}) =>
         res.init = "ok"
    /\ finalizeCalls > 0 => \A r \in 1..totalParts : r \in ackOK

\* C3: with finitely many failures the transfer completes; in particular no
\* reachable state has the coordinator blocked on a full work queue while
\* every worker is blocked on a full result queue
C3_NoQueueDeadlock == ~QueueDeadlock

\* C4: a failed negotiate, transfer or acknowledge step of an upload range
\* never crashes the Upload call and is never returned to the caller
C4_PartFailureIsRecoverable ==
  (call = "Upload" /\ fails > 0) =>
    /\ panic = ""
    /\ ret \in {"none", Nil, "FinalizeError"}

\* C5: while some range of a running transfer has failed on every attempt so
\* far, the outstanding counter stays above zero, and the call neither
\* finalizes nor returns
C5_FailingRangeStallsTheCall ==
  (coord.pc # "none" /\ \E r \in Ranges : r \notin succeeded) =>
    /\ wg > 0
    /\ pc = "wait"
    /\ finalizeCalls = 0

\* C6: the outstanding counter reaches zero at most once and each channel is
\* closed at most once, however many attempts fail; a call that got past the
\* join saw the counter reach zero exactly once, and a call that returned nil
\* closed both channels exactly once
C6_NoDoubleComplete ==
  /\ zeroHits <= 1
  /\ closes <= 2
  /\ (pc \in {"closeParts", "closeReport", "closeChunks", "finalize"}
        /\ totalParts > 0) => zeroHits = 1
  /\ (pc = "returned" /\ ret = Nil) => closes = 2

C6_Witness ==
  /\ pc = "returned" /\ ret = Nil
  /\ fails > 0 /\ zeroHits = 1 /\ closes = 2

\* C7: one Upload call issues the session-complete request at most once, and
\* when that request fails its error is what Upload returns
C7_FinalizeErrorIsReturned ==
  /\ finalizeCalls <= 1
  /\ res.finalize = "error" => (pc = "returned" /\ ret = "FinalizeError")

C7_Witness ==
  /\ res.finalize = "error" /\ ret = "FinalizeError"
  /\ totalParts = 2 /\ finalizeCalls = 1

NoGoroutineStarted ==
  workers = EmptyBag /\ coord.pc = "none" /\ ~gen.live

\* C8: when os.Stat fails Upload returns that error with no network call
\* issued; when session-init fails Upload returns that error with nothing but
\* the init request issued: no worker, no part request, no finalize
C8_PreflightFailureIsTerminal ==
  /\ res.stat = "error" =>
       /\ pc = "returned" /\ ret = "StatError"
       /\ issued = {} /\ NoGoroutineStarted
  /\ res.init = "error" =>
       /\ pc = "returned" /\ ret = "InitError"
       /\ issued = {"init"} /\ NoGoroutineStarted
       /\ heap = << >> /\ finalizeCalls = 0

C8_Witness ==
  /\ res.stat = "ok" /\ res.init = "error"
  /\ pc = "returned" /\ actualSize > 0

\* C9: when the size probe fails Download returns an error without planning
\* any range; it does not panic and does not go on with size zero
C9_ProbeFailureAborts ==
  res.probe \in {"getError", "noContentLength", "badContentLength"} =>
    /\ panic = ""
    /\ NoGoroutineStarted
    /\ pc = "returned" /\ ret \notin {"none", Nil}

\* C10: a failed open of the download destination is fatal: the coordinator
\* never clears such an error and never hands the chunk back to the workers
C10_OpenFailureIsFatal == "open" \notin requeued

\* the planner goroutine has left its loop
PlanDone ==
  /\ gen.live
  /\ IF call = "Upload" THEN gen.end >= size ELSE gen.count >= totalParts

\* C11: the upload planner's ranges partition [0, totalSize) as half-open
\* intervals: the first starts at 0, each starts where the one before ends,
\* each is non-empty and at most partSize long, they are numbered 1, 2, ...
\* in the order emitted, and when the planner is done the last ends at
\* totalSize (no range at all for an empty file)
C11_UploadRangesPartition ==
  call = "Upload" =>
    /\ \A i \in 1..Len(heap) :
         /\ heap[i].ID = i
         /\ heap[i].StartByte = IF i = 1 THEN 0 ELSE heap[i - 1].EndByte
         /\ heap[i].StartByte < heap[i].EndByte
         /\ heap[i].EndByte - heap[i].StartByte <= partSize
         /\ heap[i].EndByte <= size
    /\ \A k \in 1..Len(parts) : parts[k] = k
    /\ PlanDone =>
         IF size = 0 THEN heap = << >>
         ELSE heap # << >> /\ heap[Len(heap)].EndByte = size

C11_Witness ==
  /\ call = "Upload" /\ PlanDone
  /\ size = 7 /\ partSize = 3
  /\ Len(heap) = 3 /\ heap[3].StartByte = 6 /\ heap[3].EndByte = 7

\* n is the ceiling of a / b
IsCeil(n, a, b) == n * b >= a /\ (n - 1) * b < a

\* C12: once Upload has set the transfer up, totalParts is ceil(totalSize /
\* partSize); the outstanding counter starts at that number, both channels
\* have capacity min(n, 8) and min(n, 8) workers are started; the planner
\* emits the sequence numbers 1, 2, ... without a gap, never more than n of
\* them and exactly n when it is done
C12_RangeCountIsCeiling ==
  (call = "Upload" /\ pc = "wait") =>
    /\ IsCeil(totalParts, size, partSize)
    /\ wg = totalParts
    /\ workCap = intMin(totalParts, UploadWorkers)
    /\ reportCap = intMin(totalParts, UploadWorkers)
    /\ BagCardinality(workers) = intMin(totalParts, UploadWorkers)
    /\ Len(heap) <= totalParts
    /\ \A i \in 1..Len(heap) : heap[i].ID = i
    /\ PlanDone => Len(heap) = totalParts
    /\ (~PlanDone /\ Len(parts) < workCap) => Len(heap) < totalParts

C12_Witness ==
  /\ call = "Upload" /\ pc = "wait" /\ PlanDone
  /\ size = 9 /\ partSize = 2 /\ totalParts = 5 /\ wg = 5
  /\ { heap[i].ID : i \in 1..Len(heap) } = 1..5

\* C13: the download planner numbers the chunks from 0 and emits inclusive
\* ranges: the first starts at 0, each starts one byte after the one before
\* ends, and each ends at min(start + partSize - 1, totalSize - 1), so that
\* no chunk is empty, longer than partSize or reaches past the last byte
C13_ChunksCoverExactly ==
  call = "Download" =>
    \A k \in 1..Len(chunks) :
      /\ chunks[k].PartNumber = k - 1
      /\ chunks[k].StartByte = IF k = 1 THEN 0 ELSE chunks[k - 1].EndByte + 1
      /\ chunks[k].EndByte =
           intMin(chunks[k].StartByte + partSize - 1, size - 1)
      /\ chunks[k].StartByte <= chunks[k].EndByte
      /\ chunks[k].EndByte < size

\* the calling goroutine can take its next step
CallerStep ==
  \/ UploadWait \/ UploadCloseParts \/ UploadCloseReport \/ UploadFinalize
  \/ DownloadWait \/ DownloadCloseReport \/ DownloadCloseChunks

\* C14: a transfer set up for a size of zero plans no range and issues no
\* negotiate, transfer, acknowledge or ranged GET request; the counter is
\* zero, so the join does not block: the caller always has a next step until
\* it has returned, nothing panics, and Upload goes on to exactly one
\* session-complete request whose outcome it returns
C14_EmptyTransferCompletes ==
  (coord.pc # "none" /\ size = 0) =>
    /\ totalParts = 0 /\ wg = 0 /\ zeroHits = 0
    /\ heap = << >> /\ parts = << >> /\ chunks = << >> /\ report = << >>
    /\ issued \cap {"negotiate", "transfer", "acknowledge", "fetch"} = {}
    /\ panic = ""
    /\ pc # "returned" => ENABLED CallerStep
    /\ pc = "returned" =>
         IF call = "Upload"
         THEN /\ finalizeCalls = 1
              /\ ret = IF res.finalize = "ok" THEN Nil ELSE "FinalizeError"
         ELSE ret = Nil

C14_Witness ==
  /\ call = "Upload" /\ actualSize = 0 /\ size = 0 /\ totalParts = 0
  /\ coord.pc = "exit"
  /\ pc = "returned" /\ ret = Nil /\ finalizeCalls = 1

\* C15: a Download of a 0-byte remote file that has returned planned no
\* chunk, issued no ranged GET, and left the destination file created
C15_EmptyDownloadCreatesFile ==
  (call = "Download" /\ res.probe = "ok" /\ actualSize = 0
     /\ pc = "returned") =>
    /\ totalParts = 0 /\ lastFetch = << >>
    /\ "fetch" \notin issued
    /\ ret = Nil
    /\ destCreated

\* the upload workers that wait for the answer of their transfer request;
\* each holds the handle it opened (api.go 370-383)
Transferring ==
  LET H == { w \in BagToSet(workers) : w.pc = "transferring" }
  IN BagCardinality([w \in H |-> CopiesIn(w, workers)])

\* the transfer requests that failed in transit so far: each left its handle
\* open (api.go 384-386), every other open handle is that of a request in
\* flight
FailedInTransit == handles - Transferring

\* the only failure so far is one transfer request of an upload part that
\* failed in transit
OneTransferFailed == call = "Upload" /\ fails = 1 /\ FailedInTransit = 1

\* C16: when one transfer request of one part is the only failure of an
\* upload, nothing panics, and once Upload has returned from a successful
\* session-complete request it has returned nil, one part was negotiated
\* exactly twice and every other part was negotiated, transferred and
\* acknowledged exactly once
C16_OneRetryAfterTransferFailure ==
  OneTransferFailed =>
    /\ panic = ""
    /\ (pc = "returned" /\ res.finalize = "ok") =>
         /\ ret = Nil
         /\ Len(count) = totalParts
         /\ \E f \in Ranges :
              /\ count[f].neg = 2
              /\ \A r \in Ranges \ {f} :
                   count[r] = [neg |-> 1, xfer |-> 1, ack |-> 1]

Once == [neg |-> 1, xfer |-> 1, ack |-> 1]

\* C17: in an upload in which no step has failed and the session names a
\* part size above zero, nothing panics, no part is
\* negotiated, transferred or acknowledged more than once, the
\* session-complete request is issued at most once and only after every
\* part 1..n has been negotiated, transferred and acknowledged exactly once,
\* and an Upload that returned after the pre-flight issued it exactly once
C17_AllFirstTryOnceEach ==
  (call = "Upload" /\ fails = 0 /\ (res.init = "ok" => partSize > 0)) =>
    /\ panic = ""
    /\ \A i \in 1..Len(count) :
         count[i].neg <= 1 /\ count[i].xfer <= 1 /\ count[i].ack <= 1
    /\ requeued = {} /\ coord.pc # "send"
    /\ finalizeCalls <= 1
    /\ finalizeCalls = 1 =>
         /\ Len(count) = totalParts
         /\ \A r \in 1..totalParts : count[r] = Once /\ r \in ackOK
    /\ (pc = "returned" /\ res.stat = "ok" /\ res.init = "ok") =>
         /\ finalizeCalls = 1
         /\ ret = IF res.finalize = "ok" THEN Nil ELSE "FinalizeError"

C17_Witness ==
  /\ call = "Upload" /\ fails = 0 /\ totalParts = MaxParts
  /\ pc = "returned" /\ ret = Nil /\ finalizeCalls = 1
  /\ \A r \in 1..totalParts : count[r] = Once
  /\ heap[totalParts].EndByte - heap[totalParts].StartByte = PartSize \div 2

\* s is written as a decimal integer: an optional sign and digits
Decimal(s) ==
  /\ Len(s) > 0
  /\ \A i \in 1..Len(s) :
       s[i] \in DOMAIN DigitValue \/ (i = 1 /\ s[i] \in {"+", "-"})
  /\ \E i \in 1..Len(s) : s[i] \in DOMAIN DigitValue

\* 10^n
RECURSIVE Pow10(_)
Pow10(n) == IF n = 0 THEN 1 ELSE 10 * Pow10(n - 1)

\* the integer a decimal string denotes, by the weight of each position
Denotes(s) ==
  LET Weight(i) ==
        IF s[i] \in DOMAIN DigitValue
        THEN DigitValue[s[i]] * Pow10(Len(s) - i) ELSE 0
      RECURSIVE Sum(_)
      Sum(i) == IF i = 0 THEN 0 ELSE Sum(i - 1) + Weight(i)
  IN IF s[1] = "-" THEN 0 - Sum(Len(s)) ELSE Sum(Len(s))

\* service.Do got an answer from the server and passed it to NewResponse
Answered == request.op # "none" /\ ~sr.response.nil

\* C18 as claimed: a decimal total header with absent or numeric rate-limit
\* headers gives no error and that total; a non-numeric limit, remaining,
\* reset or total header gives an error together with a Response
C18_NonNumericHeaderIsError ==
  Answered =>
    /\ ( /\ Decimal(header.total)
         /\ \A f \in {"limit", "remaining", "reset"} :
              header[f] = << >> \/ Decimal(header[f]) ) =>
         /\ sr.err = Nil
         /\ sr.response.Page.TotalMatchingQuery = Denotes(header.total)
    /\ (\E f \in {"limit", "remaining", "reset", "total"} :
          header[f] # << >> /\ ~Decimal(header[f])) =>
         sr.err # Nil /\ ~sr.response.nil

\* C18 as the code has it: the same for the limit, remaining and total
\* headers; a non-numeric reset header is not an error, it leaves the reset
\* time unset; NewResponse returns a Response in every case
C18_NonNumericResetIsIgnored ==
  /\ (request.op # "none" /\ sr.response.nil) => sr.err = Err
  /\ Answered =>
       /\ ( /\ Decimal(header.total)
            /\ \A f \in {"limit", "remaining"} :
                 header[f] = << >> \/ Decimal(header[f]) ) =>
            /\ sr.err = Nil
            /\ sr.response.Page.TotalMatchingQuery = Denotes(header.total)
            /\ ~sr.response.Rate.nil
            /\ (header.reset # << >> /\ ~Decimal(header.reset)) =>
                 sr.response.Rate.Reset = ZeroTime
       /\ (\E f \in {"limit", "remaining", "total"} :
             header[f] # << >> /\ ~Decimal(header[f])) =>
            sr.err = "ErrSyntax"

C18_Witness ==
  /\ Answered /\ request.op = "ByID"
  /\ header.total = << "7" >> /\ header.reset = << "x" >>
  /\ header.limit = << "7" >> /\ header.remaining = << >>
  /\ sr.err = Nil /\ sr.response.Page.TotalMatchingQuery = 7
  /\ sr.response.Rate.Limit = 7 /\ sr.response.Rate.Reset = ZeroTime

\* C19: the request Delete issues is a DELETE of /files/{fileID}, while ByID
\* issues a GET of the same path
C19_DeleteIssuesDelete ==
  /\ request.op = "Delete" =>
       /\ request.method = "DELETE"
       /\ \E fileID \in FileIDs : request.path = << "files", fileID >>
  /\ request.op = "ByID" =>
       /\ request.method = "GET"
       /\ \E fileID \in FileIDs : request.path = << "files", fileID >>

\* the result the coordinator has taken from the result queue
CoordResult == IF call = "Upload" THEN heap[coord.p] ELSE coord.p

\* the error values of the results a step counts as done: in Upload the
\* coordinator counts the result it is looking at, in Download the worker
\* counts the chunk it has just reported
CountedErrors ==
  IF call = "Upload"
  THEN { heap[coord.p].Error : x \in { y \in {1} : coord.pc = "check" } }
  ELSE { w.c.Error : w \in { v \in BagToSet(workers) :
                               /\ v.pc = "done"
                               /\ workers' =
                                    BagReplace(workers, v, IdleDownloadWorker) } }

\* a step in which wg.Done lowers the counter: the goroutines of the transfer
\* run (wg.Add comes before the first go statement)
Retires == coord.pc # "none" /\ wg' < wg

\* C20: the outstanding count only ever goes down by one, and only for a
\* result that carries no error; a result with an error that the coordinator
\* has taken is not counted: its error is cleared and the same range (same
\* number, same bytes) is put on the work queue; in Upload a result without
\* an error is counted by the coordinator at once
C20_OnlySuccessIsCounted ==
  [][ /\ Retires => (wg' = wg - 1 /\ CountedErrors = {Nil})
      /\ (coord.pc = "check" /\ coord' # coord) =>
           IF CoordResult.Error # Nil
           THEN /\ wg' = wg
                /\ coord'.pc = "send"
                /\ CoordResult' = [CoordResult EXCEPT !.Error = Nil]
           ELSE call = "Upload" => wg' = wg - 1
      /\ (coord.pc = "send" /\ coord' # coord /\ panic' = panic) =>
           /\ Work' = Append(Work, coord.p)
           /\ call = "Upload" => heap' = heap
           /\ wg' = wg
    ]_vars

\* the worker goroutines that hold upload part i in an attempt
WorkersHolding(i) ==
  LET H == { w \in BagToSet(workers) :
               w.p = i /\ w.pc \notin {"range", "exit"} }
  IN BagCardinality([w \in H |-> CopiesIn(w, workers)])

\* the number of places upload part i is in: slots of the work queue, workers,
\* slots of the result queue, the coordinator
Holders(i) ==
  Cardinality({ k \in 1..Len(parts) : parts[k] = i })
  + WorkersHolding(i)
  + Cardinality({ k \in 1..Len(report) : report[k] = i })
  + (IF coord.pc \in {"check", "send"} /\ coord.p = i THEN 1 ELSE 0)

\* C21: an upload part is in at most one of work queue, one worker, result
\* queue and coordinator at any time, so that no two workers process it at
\* once and the coordinator does not write its error field while a worker
\* still processes it
C21_SingleHolder ==
  call = "Upload" => \A i \in 1..Len(heap) : Holders(i) <= 1

\* C22: when the coordinator retires an upload part (counts it as done), the
\* tag posted by the part's latest successful acknowledge was the tag the
\* transfer of that same attempt returned: not a tag of an earlier attempt
\* and not the empty tag of a transfer that failed
C22_RetiredWithFreshTag ==
  [][ (call = "Upload" /\ Retires) => lastAck[coord.p] # "stale" ]_vars

\* the concurrency limit of the running driver
ConcurrencyLimit == IF call = "Upload" THEN UploadWorkers ELSE DownloadWorkers

\* the workers that are in an attempt on a range
InFlight ==
  LET H == { w \in BagToSet(workers) : w.pc \notin {"range", "exit"} }
  IN BagCardinality([w \in H |-> CopiesIn(w, workers)])

\* C23: once a driver has started its goroutines there are exactly
\* min(concurrencyLimit, totalRanges) workers (none for zero ranges), and
\* never more than concurrencyLimit range attempts in flight
C23_WorkersAreMinOfLimitAndRanges ==
  (call \in {"Upload", "Download"} /\ coord.pc # "none") =>
    /\ BagCardinality(workers) = intMin(ConcurrencyLimit, totalParts)
    /\ InFlight <= ConcurrencyLimit

\* every worker has left its dequeue loop and the coordinator its loop
AllExited ==
  /\ \A w \in BagToSet(workers) : w.pc = "exit"
  /\ coord.pc = "exit"

\* C24: once the driver has closed the work queue and the result queue,
\* every worker and the coordinator eventually leave their loops
C24_GoroutinesTerminate == (workClosed /\ reportClosed) ~> AllExited

\* the worker goroutine in state w takes the step
Left(w) == CopiesIn(w, workers') < CopiesIn(w, workers)

\* C25: an upload worker that has reported a failed negotiate goes on to the
\* transfer of the same part, one that has reported a failed transfer goes on
\* to the acknowledge, one that has reported a failed acknowledge goes on to
\* the final report; the transfer step and the acknowledge step are taken
\* whether or not the steps before them succeeded, and the acknowledge
\* request is issued in every attempt that gets that far
C25_NoShortCircuit ==
  [][ call = "Upload" =>
        \A w \in BagToSet(workers) :
          (Left(w) /\ panic' = panic) =>
            CASE w.pc = "reportNegotiate" ->
                   /\ report' = Append(report, w.p)
                   /\ workers' = BagReplace(workers, w,
                                   [w EXCEPT !.pc = "transfer"])
              [] w.pc = "reportTransfer" ->
                   /\ report' = Append(report, w.p)
                   /\ workers' = BagReplace(workers, w,
                                   [w EXCEPT !.pc = "acknowledge"])
              [] w.pc = "reportAcknowledge" ->
                   /\ report' = Append(report, w.p)
                   /\ workers' = BagReplace(workers, w,
                                   [w EXCEPT !.pc = "report"])
              [] w.pc = "transfer" ->
                   \E v \in BagToSet(workers') :
                     /\ v.p = w.p /\ v.clean = (w.clean /\ v.pc = "transferring")
                     /\ v.pc \in {"transferring", "reportTransfer"}
                     /\ workers' = BagReplace(workers, w, v)
              [] w.pc = "transferring" ->
                   \E v \in BagToSet(workers') :
                     /\ v.p = w.p /\ v.clean = (w.clean /\ v.pc = "acknowledge")
                     /\ v.pc \in {"acknowledge", "reportTransfer"}
                     /\ workers' = BagReplace(workers, w, v)
              [] w.pc = "acknowledge" ->
                   /\ count'[w.p].ack = count[w.p].ack + 1
                   /\ \E v \in BagToSet(workers') :
                        /\ v.p = w.p /\ v.pc = "acknowledging"
                        /\ workers' = BagReplace(workers, w, v)
              [] w.pc = "acknowledging" ->
                   \E v \in BagToSet(workers') :
                     /\ v.p = w.p /\ v.pc \in {"report", "reportAcknowledge"}
                     /\ workers' = BagReplace(workers, w, v)
              [] OTHER -> TRUE
    ]_vars

C25_Witness ==
  /\ call = "Upload" /\ fails = 1
  /\ \E w \in BagToSet(workers) :
       /\ w.pc = "report" /\ ~w.clean /\ w.tag # NoTag
       /\ count[w.p] = Once
       /\ Holders(w.p) = 2

\* part_002 78-87: the bounds generateChunks gives to chunk number i
RECURSIVE ChunkStart(_), ChunkEnd(_)
ChunkStart(i) == IF i = 0 THEN 0 ELSE ChunkEnd(i - 1) + 1

ChunkEnd(i) ==
  IF i = 0 THEN PartSize - 1
  ELSE LET end == ChunkStart(i) + partSize + 1
       IN IF end > size THEN size ELSE end

\* every copy of a chunk value that a channel, a worker or the coordinator
\* holds
ChunkCopies ==
  { chunks[k] : k \in 1..Len(chunks) } \cup { report[k] : k \in 1..Len(report) }
    \cup { w.c : w \in { v \in BagToSet(workers) : v.pc \notin {"range", "exit"} } }
    \cup (IF coord.pc \in {"check", "send"} THEN {coord.p} ELSE {})

\* the workers whose ranged GET is streaming into the destination
Writers == { w \in BagToSet(workers) : w.pc = "fetch" }

\* the inclusive byte intervals of a and b have no offset in common
Disjoint(a, b) ==
  \/ a.EndByte < b.StartByte \/ b.EndByte < a.StartByte
  \/ a.StartByte > a.EndByte \/ b.StartByte > b.EndByte

\* C26: in a download the byte intervals of two distinct chunks never
\* overlap, whoever holds them; a chunk keeps the interval the planner gave
\* it through every retry; and no two workers write the same chunk at the
\* same time, so that each offset is only ever written with the bytes of the
\* one chunk that owns it, in whatever order the workers complete
C26_DisjointWrites ==
  call = "Download" =>
    /\ \A a \in ChunkCopies :
         /\ a.StartByte = ChunkStart(a.PartNumber)
         /\ a.EndByte = ChunkEnd(a.PartNumber)
         /\ \A b \in ChunkCopies :
              a.PartNumber # b.PartNumber => Disjoint(a, b)
    /\ \A w \in Writers :
         /\ CopiesIn(w, workers) = 1
         /\ \A v \in Writers : v.c.PartNumber = w.c.PartNumber => v = w

C26_Witness ==
  /\ call = "Download"
  /\ \E w \in Writers : \E v \in Writers :
       /\ w.pc = "fetch" /\ w.c.PartNumber = 0 /\ lastFetch[0] = "failed"
       /\ v.pc = "fetch" /\ v.c.PartNumber = 1 /\ lastFetch[1] = "none"
       /\ w.c.EndByte + 1 = v.c.StartByte

\* C27: every transfer request of an upload is sent by a worker whose
\* negotiate request for that part succeeded in the same attempt, and a part
\* never has more transfer requests than grants negotiated for it
C27_TransferUsesOwnGrant ==
  [][ call = "Upload" =>
        \A i \in DOMAIN count :
          count'[i].xfer # count[i].xfer =>
            /\ count'[i].xfer <= count'[i].neg
            /\ \E w \in BagToSet(workers) :
                 Left(w) /\ w.pc = "transfer" /\ w.p = i /\ w.clean
    ]_vars

\* C28: no goroutine ever sends on a closed channel: after Upload or Download
\* has closed its channels no worker publishes a result and the coordinator
\* re-enqueues nothing
C28_NoSendOnClosed == panic # SendOnClosed

\* C29: once the goroutines of a transfer run, the outstanding counter is
\* decremented at most once per range, so it never becomes negative, however
\* often a range is reported or retried
C29_RetiredAtMostOnce ==
  coord.pc # "none" => wg >= 0 /\ panic # NegativeCounter

\* C30: a worker closes the file handle of an attempt before it takes the
\* next range, on every path: the open handles are never more than the
\* workers that are inside an attempt, and so never more than the workers
C30_HandlesClosedPerAttempt ==
  /\ handles <= InFlight
  /\ handles <= ConcurrencyLimit

====
